---- MODULE Spec2Model ----
(***************************************************************************)
(* OpenTurbofanArchitecting: the architecture graph, the choice engine     *)
(* (ArchitectingProblem.generate_architecture / evaluate and the shipped   *)
(* architecting choices) and the balance system (DesignBalancer,           *)
(* OffDesignBalancer, ArchitectureMultiPointCycle).                        *)
(*                                                                         *)
(* Conventions.  Object references are element names (names are unique in  *)
(* an architecture); Python None is the string "None".  Continuous design  *)
(* values are integers in a fixed unit per variable, chosen so that the    *)
(* bounds and their midpoint are integers (the unit is stated next to the  *)
(* bounds).  An exception is the field err of a result ("none" = returned  *)
(* normally).                                                              *)
(***************************************************************************)
EXTENDS Integers, Sequences, FiniteSets, TLC

(***************************************************************************)
(* Python list helpers                                                      *)
(***************************************************************************)
Range(s) == {s[i] : i \in DOMAIN s}

\* list.insert(i, x), i >= 0 (0-based; i >= len appends)
Insert(s, i, x) ==
    IF i >= Len(s) THEN Append(s, x)
    ELSE SubSeq(s, 1, i) \o <<x>> \o SubSeq(s, i + 1, Len(s))

\* del list[k] for a 1-based position k
RemoveAt(s, k) == SubSeq(s, 1, k - 1) \o SubSeq(s, k + 1, Len(s))

\* 1-based position of list[i] for a Python index i (negative counts from the end);
\* 0 when the index is out of range (IndexError)
PyPos(s, i) ==
    LET k == IF i < 0 THEN Len(s) + i + 1 ELSE i + 1
    IN IF k >= 1 /\ k <= Len(s) THEN k ELSE 0

\* 1-based position of the first entry equal to x, 0 when absent (list.index raises ValueError)
PosOf(s, x) ==
    IF \E k \in DOMAIN s : s[k] = x
    THEN CHOOSE k \in DOMAIN s : s[k] = x /\ \A j \in 1..(k - 1) : s[j] # x
    ELSE 0

\* F applied to the value x, which is evaluated first
With(x, F(_)) == IF x = x THEN F(x) ELSE F(x)

RECURSIVE Concat(_)
Concat(ss) == IF ss = <<>> THEN <<>> ELSE Head(ss) \o Concat(Tail(ss))

RECURSIVE SumSeq(_)
SumSeq(s) == IF s = <<>> THEN 0 ELSE Head(s) + SumSeq(Tail(s))

(***************************************************************************)
(* opt_defs.py: design variables                                            *)
(***************************************************************************)
\* ContinuousDesignVariable(name, bounds, fixed_value); fixed = <<>> is fixed_value None
ContinuousDesignVariable(name, bounds, fixed) ==
    [name |-> name, type |-> "cont", bounds |-> bounds, values |-> <<>>, fixed |-> fixed]

\* DiscreteDesignVariable / IntegerDesignVariable(name, values, fixed_value)
DiscreteDesignVariable(name, values, fixed) ==
    [name |-> name, type |-> "int", bounds |-> <<>>, values |-> values, fixed |-> fixed]

is_fixed(dv) == dv.fixed # <<>>

\* encode: continuous is the identity; discrete is values.index(value), ValueError when absent.
\* Returns [v, err].
MutEncodeOffByOne(dv, value) ==
    IF dv.type = "cont" THEN [v |-> value, err |-> "none"]
    ELSE IF PosOf(dv.values, value) = 0 THEN [v |-> 0, err |-> "ValueError"]
    ELSE [v |-> PosOf(dv.values, value), err |-> "none"]

encode(dv, value) ==
    IF dv.type = "cont" THEN [v |-> value, err |-> "none"]
    ELSE IF PosOf(dv.values, value) = 0 THEN [v |-> 0, err |-> "ValueError"]
    ELSE [v |-> PosOf(dv.values, value) - 1, err |-> "none"]

\* decode: continuous is the identity; discrete is values[index], IndexError out of range
MutDecodeNegativeIndex(dv, value) ==
    IF dv.type = "cont" THEN [v |-> value, err |-> "none"]
    ELSE IF value < -Len(dv.values) \/ value >= Len(dv.values) THEN [v |-> 0, err |-> "IndexError"]
    ELSE IF value < 0 THEN [v |-> dv.values[Len(dv.values) + value + 1], err |-> "none"]
    ELSE [v |-> dv.values[value + 1], err |-> "none"]

decode(dv, value) ==
    IF dv.type = "cont" THEN [v |-> value, err |-> "none"]
    ELSE IF value < 0 \/ value >= Len(dv.values) THEN [v |-> 0, err |-> "IndexError"]
    ELSE [v |-> dv.values[value + 1], err |-> "none"]

\* get_fixed_value: discrete raises ValueError when the fixed value is not in values
get_fixed_value(dv) ==
    IF dv.type = "int" /\ PosOf(dv.values, dv.fixed[1]) = 0
    THEN [v |-> 0, err |-> "ValueError"]
    ELSE [v |-> dv.fixed[1], err |-> "none"]

\* get_imputed_value: midpoint of the bounds (continuous), index 0 (discrete)
MutImputedLowerBound(dv) ==
    IF dv.type = "cont" THEN dv.bounds[1] ELSE 0

get_imputed_value(dv) ==
    IF dv.type = "cont" THEN (dv.bounds[1] + dv.bounds[2]) \div 2 ELSE 0

\* the in-domain encoded values drawn for one variable: both bounds and the midpoint of a
\* continuous variable, every index of a discrete one (the first and the last of a long list)
SampleValues(dv) ==
    IF dv.type = "cont"
    THEN {dv.bounds[1], (dv.bounds[1] + dv.bounds[2]) \div 2, dv.bounds[2]}
    ELSE IF Len(dv.values) <= 5 THEN 0..(Len(dv.values) - 1)
    ELSE {0, Len(dv.values) - 1}

(***************************************************************************)
(* evaluation/architecture: elements                                        *)
(***************************************************************************)
NewEl(name, kind) ==
    [name |-> name, kind |-> kind,
     target |-> "None", target_core |-> "None", target_bypass |-> "None",
     target_fluid |-> "None", target_coolant |-> "None",
     sources |-> <<>>, connections |-> <<>>, shaft |-> "None",
     main |-> FALSE, offtake |-> FALSE, flow_out |-> "None",
     bleed_names |-> <<>>, par |-> <<>>]

\* TurbofanArchitecture.get_elements_by_type: positions (1-based) of the elements of a kind
get_elements_by_type(arch, kind) ==
    SelectSeq([i \in 1..Len(arch) |-> i], LAMBDA i : arch[i].kind = kind)

CountKind(arch, kind) == Len(get_elements_by_type(arch, kind))

\* architecture.elements.index(el) as a 0-based Python index, by name
IndexOfName(arch, name) == PosOf([i \in 1..Len(arch) |-> arch[i].name], name) - 1

HasNamed(arch, kind, name) == \E i \in 1..Len(arch) : arch[i].kind = kind /\ arch[i].name = name

\* position (1-based) of the element named name
Pos(arch, name) == IndexOfName(arch, name) + 1

\* Shaft._set_shaft_ref for one shaft: every non-Gearbox connection gets shaft = this shaft;
\* ValueError when a connection already refers to another shaft
ShaftRefClash(arch, sname) ==
    \E k \in 1..Len(arch[Pos(arch, sname)].connections) :
        LET c == arch[Pos(arch, sname)].connections[k]
        IN Pos(arch, c) > 0 /\ arch[Pos(arch, c)].kind # "Gearbox"
           /\ arch[Pos(arch, c)].shaft \notin {"None", sname}

_set_shaft_ref(arch, sname) ==
    [i \in 1..Len(arch) |->
        IF arch[i].kind # "Gearbox" /\ arch[i].kind # "Shaft"
           /\ arch[i].name \in Range(arch[Pos(arch, sname)].connections)
        THEN [arch[i] EXCEPT !.shaft = sname] ELSE arch[i]]

(***************************************************************************)
(* turbojet_architecture.py: the baseline every candidate starts from      *)
(***************************************************************************)
get_turbojet_architecture ==
    << [NewEl("inlet", "Inlet") EXCEPT !.target = "compressor"],
       [NewEl("compressor", "Compressor") EXCEPT !.target = "burner", !.shaft = "shaft",
                                                  !.par = <<135>>],
       [NewEl("burner", "Burner") EXCEPT !.target = "turbine", !.main = TRUE, !.par = <<0>>],
       [NewEl("turbine", "Turbine") EXCEPT !.target = "nozzle", !.shaft = "shaft"],
       [NewEl("nozzle", "Nozzle") EXCEPT !.par = <<1>>],
       [NewEl("shaft", "Shaft") EXCEPT !.connections = <<"compressor", "turbine">>,
                                       !.par = <<8070>>],
       [NewEl("bleed", "Bleed") EXCEPT !.bleed_names = <<"bld">>,
                                       !.connections = <<"lpc", "lpt">>] >>

(***************************************************************************)
(* architecting/choice.py and architecting/turbofan/*: the choices          *)
(*                                                                          *)
(* A choice is [kind, fix]: fix holds the constructor's fixed_* options in  *)
(* the order of the declared variables, <<>> for None and <<v>> for v.      *)
(* modify_architecture returns [arch, anp, ret, err]; an entry of ret is    *)
(* B(b) for the Python bool b and V(v) for any other value v.               *)
(***************************************************************************)
B(b) == [bool |-> TRUE, b |-> b, v |-> 0]
V(v) == [bool |-> FALSE, b |-> FALSE, v |-> v]

Ret(arch, anp, ret) == [arch |-> arch, anp |-> anp, ret |-> ret, err |-> "none"]
Raise(arch, anp, err) == [arch |-> arch, anp |-> anp, ret |-> <<>>, err |-> err]

\* the "fan_present" loop shared by the choices: a Compressor named 'fan'
fan_present(arch) == HasNamed(arch, "Compressor", "fan")

\* ---- fan_choice.py (bpr in units of 0.25, fpr in units of 0.05) ----
FanChoice(fix_include_fan, fixed_bpr, fixed_fpr) ==
    [kind |-> "FanChoice", fix |-> <<fix_include_fan, fixed_bpr, fixed_fpr>>]

FanChoice_get_design_variables(c) ==
    << DiscreteDesignVariable("include_fan", <<FALSE, TRUE>>, c.fix[1]),
       ContinuousDesignVariable("bpr", <<8, 50>>, c.fix[2]),
       ContinuousDesignVariable("fpr", <<22, 36>>, c.fix[3]) >>

\* variant: the two ratios change places (the fan gets bpr, the splitter fpr)
MutIncludeFanSwapped(arch, bpr, fpr) ==
    LET nozzle_core == arch[get_elements_by_type(arch, "Nozzle")[1]].name
        a1     == [arch EXCEPT ![Pos(arch, nozzle_core)].par = <<0>>]
        fan    == [NewEl("fan", "Compressor") EXCEPT !.target = "splitter", !.par = <<bpr>>]
        a2     == Insert(a1, 1, fan)
        inlet  == a2[get_elements_by_type(a2, "Inlet")[1]].name
        split  == [NewEl("splitter", "Splitter") EXCEPT
                      !.target_bypass = "bypass_nozzle", !.par = <<fpr>>,
                      !.target_core = a2[Pos(a2, inlet)].target]
        a3     == Insert(a2, 2, split)
        a4     == Insert(a3, IndexOfName(a3, nozzle_core) + 1,
                         [NewEl("bypass_nozzle", "Nozzle") EXCEPT !.par = <<0>>])
        a5     == [a4 EXCEPT ![Pos(a4, inlet)].target = "fan"]
        shaft  == get_elements_by_type(a5, "Shaft")[1]
    IN [a5 EXCEPT ![shaft].connections = Append(@, "fan")]

_include_fan(arch, bpr, fpr) ==
    LET nozzle_core == arch[get_elements_by_type(arch, "Nozzle")[1]].name
        a1     == [arch EXCEPT ![Pos(arch, nozzle_core)].par = <<0>>]
        fan    == [NewEl("fan", "Compressor") EXCEPT !.target = "splitter", !.par = <<fpr>>]
        a2     == Insert(a1, 1, fan)
        inlet  == a2[get_elements_by_type(a2, "Inlet")[1]].name
        split  == [NewEl("splitter", "Splitter") EXCEPT
                      !.target_bypass = "bypass_nozzle", !.par = <<bpr>>,
                      !.target_core = a2[Pos(a2, inlet)].target]
        a3     == Insert(a2, 2, split)
        a4     == Insert(a3, IndexOfName(a3, nozzle_core) + 1,
                         [NewEl("bypass_nozzle", "Nozzle") EXCEPT !.par = <<0>>])
        a5     == [a4 EXCEPT ![Pos(a4, inlet)].target = "fan"]
        shaft  == get_elements_by_type(a5, "Shaft")[1]
    IN [a5 EXCEPT ![shaft].connections = Append(@, "fan")]

FanChoice_modify_architecture(c, arch, anp, dv) ==
    LET include_fan == dv[1]
    IN Ret(IF include_fan THEN _include_fan(arch, dv[2], dv[3]) ELSE arch, anp,
           <<B(TRUE), B(include_fan), B(include_fan)>>)

\* ---- gearbox_choice.py (gear_ratio in units of 1) ----
GearboxChoice(fix_include_gear, fixed_gear) ==
    [kind |-> "GearboxChoice", fix |-> <<fix_include_gear, fixed_gear>>]

GearboxChoice_get_design_variables(c) ==
    << DiscreteDesignVariable("include_gear", <<FALSE, TRUE>>, c.fix[1]),
       ContinuousDesignVariable("gear_ratio", <<1, 5>>, c.fix[2]) >>

_include_gearbox(arch, gear_ratio) ==
    LET fan   == arch[get_elements_by_type(arch, "Compressor")[1]].name
        cs    == get_elements_by_type(arch, "Shaft")[1]
        core  == arch[cs].name
        a1    == [arch EXCEPT ![cs].connections =
                      Append(SubSeq(@, 1, Len(@) - 1), "gearbox")]
        fsh   == [NewEl("fan_shaft", "Shaft") EXCEPT
                      !.connections = <<fan, "gearbox">>,
                      !.par = arch[cs].par \o <<gear_ratio>>]
        gb    == [NewEl("gearbox", "Gearbox") EXCEPT !.sources = <<core, "fan_shaft">>]
        a2    == [a1 EXCEPT ![Pos(a1, fan)].shaft = "fan_shaft"]
        a3    == Insert(a2, IndexOfName(a2, core), fsh)
    IN Insert(a3, IndexOfName(a3, "fan_shaft"), gb)

GearboxChoice_modify_architecture(c, arch, anp, dv) ==
    LET include_gear == dv[1]
        fp == fan_present(arch)
        fan == arch[get_elements_by_type(arch, "Compressor")[1]]
    IN IF fp /\ include_gear /\ fan.shaft # "None"
       THEN Raise(arch, anp, "ValueError")   \* Shaft('fan_shaft', [fan]): shaft already set
       ELSE Ret(IF fp /\ include_gear THEN _include_gearbox(arch, dv[2]) ELSE arch, anp,
                <<B(fp), B(fp /\ include_gear)>>)

\* ---- shafts_number.py (opr in units of 0.05, percentages in units of 1/30, rpm in units of 500) ----
ShaftChoice(fixed_number_shafts, fixed_opr, fixed_pr_compressor_ip, fixed_pr_compressor_lp, fixed_rpm_shaft_hp, fixed_rpm_shaft_ip, fixed_rpm_shaft_lp) ==
    [kind |-> "ShaftChoice",
     fix |-> <<fixed_number_shafts, fixed_opr, fixed_pr_compressor_ip, fixed_pr_compressor_lp,
               fixed_rpm_shaft_hp, fixed_rpm_shaft_ip, fixed_rpm_shaft_lp>>]

ShaftChoice_get_design_variables(c) ==
    << DiscreteDesignVariable("number_shafts", <<1, 2, 3>>, c.fix[1]),
       ContinuousDesignVariable("opr", <<22, 1200>>, c.fix[2]),
       ContinuousDesignVariable("pr_compressor_ip", <<3, 27>>, c.fix[3]),
       ContinuousDesignVariable("pr_compressor_lp", <<3, 27>>, c.fix[4]),
       ContinuousDesignVariable("rpm_shaft_hp", <<2, 40>>, c.fix[5]),
       ContinuousDesignVariable("rpm_shaft_ip", <<2, 40>>, c.fix[6]),
       ContinuousDesignVariable("rpm_shaft_lp", <<2, 40>>, c.fix[7]) >>

\* pr_percentages (lines 114-115): unused stages are 0; a sum of 1 or more is replaced by [1/3, 1/3]
pr_percentages(number_shafts, pr_compressor_ip, pr_compressor_lp) ==
    LET p == << IF number_shafts >= 2 THEN pr_compressor_ip ELSE 0,
                IF number_shafts = 3 THEN pr_compressor_lp ELSE 0 >>
    IN IF p[1] + p[2] >= 30 THEN <<10, 10>> ELSE p

\* one pass of the loop of _add_shafts (lines 182-219)
AddOneShaft(arch, number, pr_new, rpm_new) ==
    LET comps == get_elements_by_type(arch, "Compressor")
        compressor == arch[comps[PyPos(comps, -1 - number)]].name
        turbine == arch[get_elements_by_type(arch, "Turbine")[number + 1]].name
        nozzle == arch[get_elements_by_type(arch, "Nozzle")[1]].name
        shaft == arch[get_elements_by_type(arch, "Shaft")[1]].name
        sn == IF number = 0 THEN "ip" ELSE "lp"
        comp_new == [NewEl("comp_" \o sn, "Compressor") EXCEPT
                        !.par = pr_new, !.shaft = "shaft_" \o sn, !.target = compressor]
        turb_new == [NewEl("turb_" \o sn, "Turbine") EXCEPT
                        !.shaft = "shaft_" \o sn, !.target = nozzle]
        shaft_new == [NewEl("shaft_" \o sn, "Shaft") EXCEPT
                        !.connections = <<"comp_" \o sn, "turb_" \o sn>>, !.par = <<rpm_new>>]
    IN With(Insert(arch, IndexOfName(arch, compressor), comp_new), LAMBDA a1 :
       With(Insert(a1, IndexOfName(a1, turbine) + 1, turb_new), LAMBDA a2 :
       With(Insert(a2, IndexOfName(a2, shaft), shaft_new), LAMBDA a3 :
            [a3 EXCEPT ![Pos(a3, turbine)].target = "turb_" \o sn])))

\* del hp_shaft.connections[hp_shaft.connections.index(el)]; lp_shaft.connections.append(el)
MutCopyToLpShaft(arch, el) ==
    LET shafts == get_elements_by_type(arch, "Shaft")
    IN [arch EXCEPT ![shafts[1]].connections = Append(@, el)]

MoveToLpShaft(arch, el) ==
    LET shafts == get_elements_by_type(arch, "Shaft")
        hp == shafts[Len(shafts)]
    IN [arch EXCEPT ![hp].connections = RemoveAt(@, PosOf(@, el)),
                    ![shafts[1]].connections = Append(@, el)]

\* the part of _add_shafts after the loop (lines 221-249): the fan and the counter-rotating fan
\* move to the low-pressure shaft, the inlet feeds the first compressor
ConnectLpShaft(arch, a2, fanp, crtfp) ==
    LET comps == get_elements_by_type(a2, "Compressor")
        shafts == get_elements_by_type(a2, "Shaft")
        hp == shafts[Len(shafts)]
        nf == IF fanp THEN 1 ELSE 0
        nc == IF crtfp THEN 1 ELSE 0
        lp_comp == a2[comps[nf + nc + 1]].name
        fan == a2[comps[nc + 1]].name
        crtf == a2[comps[1]].name
        inlet == get_elements_by_type(a2, "Inlet")[1]
        splitter == get_elements_by_type(a2, "Splitter")[1]
    IN IF fanp /\ PosOf(a2[hp].connections, fan) = 0 THEN [arch |-> arch, err |-> "ValueError"]
       ELSE With(IF fanp THEN [MoveToLpShaft(a2, fan) EXCEPT ![splitter].target_core = lp_comp]
                 ELSE a2, LAMBDA a3 :
            IF crtfp /\ PosOf(a3[hp].connections, crtf) = 0
            THEN [arch |-> arch, err |-> "ValueError"]
            ELSE With(IF crtfp THEN MoveToLpShaft(a3, crtf) ELSE a3, LAMBDA a4 :
                      [arch |-> [a4 EXCEPT ![inlet].target = a4[comps[1]].name], err |-> "none"]))

\* _add_shafts (lines 166-249); pr is <<pr_compressor[0], [1], [2]>>, each a symbolic value
_add_shafts(arch, number_shafts, pr, rpm_shaft, fanp, crtfp) ==
    LET comps0 == get_elements_by_type(arch, "Compressor")
        shafts0 == get_elements_by_type(arch, "Shaft")
    IN With([arch EXCEPT ![comps0[Len(comps0)]].par = pr[1],
                         ![shafts0[Len(shafts0)]].par = <<rpm_shaft[1]>>], LAMBDA a0 :
       With(IF number_shafts >= 1 THEN AddOneShaft(a0, 0, pr[2], rpm_shaft[2]) ELSE a0, LAMBDA a1 :
       With(IF number_shafts >= 2 THEN AddOneShaft(a1, 1, pr[3], rpm_shaft[3]) ELSE a1, LAMBDA a2 :
            ConnectLpShaft(arch, a2, fanp, crtfp))))

ShaftChoice_modify_architecture(c, arch, anp, dv) ==
    LET fanp == fan_present(arch)
        crtfp == HasNamed(arch, "Compressor", "crtf")
        fan_opr == IF fanp THEN arch[Pos(arch, "fan")].par ELSE <<>>
        crtf_opr == IF crtfp THEN arch[Pos(arch, "crtf")].par ELSE <<>>
        number_shafts == dv[1]
        pct == pr_percentages(number_shafts, dv[3], dv[4])
        \* pr_compressor[k] kept symbolic: stage k of opr/fan_opr/crtf_opr split by pct
        pr == [k \in 1..3 |-> <<k, dv[2], Len(fan_opr), Len(crtf_opr)>> \o fan_opr \o crtf_opr \o pct]
    IN With(_add_shafts(arch, number_shafts - 1, pr, <<dv[5], dv[6], dv[7]>>, fanp, crtfp),
            LAMBDA r :
            IF r.err # "none" THEN Raise(arch, anp, r.err)
            ELSE Ret(r.arch, anp,
                     <<B(TRUE), B(TRUE), B(pct[1] # 0), B(pct[2] # 0), B(TRUE),
                       B(number_shafts >= 2), B(number_shafts = 3)>>))

\* ---- crtf_choice.py ----
CRTFChoice(fix_include_crtf) == [kind |-> "CRTFChoice", fix |-> <<fix_include_crtf>>]

CRTFChoice_get_design_variables(c) ==
    << DiscreteDesignVariable("include_crtf_fan", <<FALSE, TRUE>>, c.fix[1]) >>

_include_crtf_fan(arch) ==
    LET fan == arch[Pos(arch, "fan")]
        crtf == [NewEl("crtf", "Compressor") EXCEPT !.par = fan.par, !.target = "fan"]
        a1 == [arch EXCEPT ![get_elements_by_type(arch, "Inlet")[1]].target = "crtf"]
        a2 == Insert(a1, IndexOfName(a1, "fan"), crtf)
    IN [a2 EXCEPT ![get_elements_by_type(a2, "Shaft")[1]].connections = Append(@, "crtf")]

CRTFChoice_modify_architecture(c, arch, anp, dv) ==
    LET fp == fan_present(arch)
    IN Ret(IF fp /\ dv[1] THEN _include_crtf_fan(arch) ELSE arch, anp, <<B(fp)>>)

\* ---- afterburner_choice.py (far in units of 0.005) ----
AfterburnerChoice(fix_include_afterburner, fixed_far) ==
    [kind |-> "AfterburnerChoice", fix |-> <<fix_include_afterburner, fixed_far>>]

AfterburnerChoice_get_design_variables(c) ==
    << DiscreteDesignVariable("include_afterburner", <<FALSE, TRUE>>, c.fix[1]),
       ContinuousDesignVariable("far", <<0, 10>>, c.fix[2]) >>

_include_afterburner(arch, far) ==
    LET turbs == get_elements_by_type(arch, "Turbine")
        turbine == arch[turbs[Len(turbs)]].name
        nozzle == arch[get_elements_by_type(arch, "Nozzle")[1]].name
        fuel_type == arch[get_elements_by_type(arch, "Burner")[1]].par
        ab == [NewEl("afterburner", "Burner") EXCEPT !.par = <<far>> \o fuel_type, !.target = nozzle]
        a1 == [arch EXCEPT ![Pos(arch, turbine)].target = "afterburner"]
    IN Insert(a1, IndexOfName(a1, turbine) + 1, ab)

\* variant: the afterburner is added whether or not a fan is there
MutAfterburnerIgnoresFan(c, arch, anp, dv) ==
    Ret(IF dv[1] THEN _include_afterburner(arch, dv[2]) ELSE arch, anp,
        <<B(TRUE), B(dv[1])>>)

AfterburnerChoice_modify_architecture(c, arch, anp, dv) ==
    LET fp == fan_present(arch)
    IN Ret(IF dv[1] /\ ~fp THEN _include_afterburner(arch, dv[2]) ELSE arch, anp,
           <<B(~fp), B(~fp /\ dv[1])>>)

\* ---- itb_choice.py (far in units of 0.005) ----
ITBChoice(fix_include_itb, fixed_far) ==
    [kind |-> "ITBChoice", fix |-> <<fix_include_itb, fixed_far>>]

ITBChoice_get_design_variables(c) ==
    << DiscreteDesignVariable("include_itb", <<FALSE, TRUE>>, c.fix[1]),
       ContinuousDesignVariable("far", <<0, 10>>, c.fix[2]) >>

\* variant: the inter-turbine burner is put into the element list before the first burner
MutIncludeItbFirst(arch, far) ==
    LET turbs == get_elements_by_type(arch, "Turbine")
        turbine == arch[turbs[1]].name
        turbine_ip == arch[turbs[2]].name
        fuel_type == arch[get_elements_by_type(arch, "Burner")[1]].par
        itb == [NewEl("itb", "Burner") EXCEPT !.par = <<far>> \o fuel_type, !.target = turbine_ip]
        a1 == [arch EXCEPT ![Pos(arch, turbine)].target = "itb"]
    IN Insert(a1, get_elements_by_type(a1, "Burner")[1] - 1, itb)

\* _include_itb also scales the shared design condition's turbine inlet temperature by 0.85
_include_itb(arch, far) ==
    LET turbs == get_elements_by_type(arch, "Turbine")
        turbine == arch[turbs[1]].name
        turbine_ip == arch[turbs[2]].name
        fuel_type == arch[get_elements_by_type(arch, "Burner")[1]].par
        itb == [NewEl("itb", "Burner") EXCEPT !.par = <<far>> \o fuel_type, !.target = turbine_ip]
        a1 == [arch EXCEPT ![Pos(arch, turbine)].target = "itb"]
    IN Insert(a1, IndexOfName(a1, turbine) + 1, itb)

ITBChoice_modify_architecture(c, arch, anp, dv) ==
    LET tp == CountKind(arch, "Turbine") >= 2
    IN IF tp /\ dv[1]
       THEN Ret(_include_itb(arch, dv[2]),
                [anp EXCEPT !.turbine_in_temp = (@ * 85) \div 100],
                <<B(tp), B(TRUE)>>)
       ELSE Ret(arch, anp, <<B(tp), B(FALSE)>>)

\* ---- nozzle_mixing_choice.py ----
NozzleMixingChoice(fix_include_mixing) ==
    [kind |-> "NozzleMixingChoice", fix |-> <<fix_include_mixing>>]

NozzleMixingChoice_get_design_variables(c) ==
    << DiscreteDesignVariable("include_mixing", <<FALSE, TRUE>>, c.fix[1]) >>

_include_mixing(arch) ==
    LET nozzles == get_elements_by_type(arch, "Nozzle")
        nozzle_core == arch[nozzles[1]].name
        nozzle_bypass == arch[nozzles[2]].name
        turbs == get_elements_by_type(arch, "Turbine")
        source_core == arch[turbs[Len(turbs)]].name
        source_bypass == arch[get_elements_by_type(arch, "Splitter")[1]].name
        a1 == RemoveAt(arch, Pos(arch, nozzle_core))
        a2 == RemoveAt(a1, Pos(a1, nozzle_bypass))
        mixer == [NewEl("mixer", "Mixer") EXCEPT
                     !.sources = <<source_core, source_bypass>>, !.target = "nozzle_joint"]
        a3 == [a2 EXCEPT ![Pos(a2, source_core)].target = "mixer",
                         ![Pos(a2, source_core)].flow_out = "Fl_I1",
                         ![Pos(a2, source_bypass)].target_bypass = "mixer",
                         ![Pos(a2, source_bypass)].flow_out = "Fl_I2"]
        a4 == Insert(a3, IndexOfName(a3, source_core) + 1, mixer)
    IN Insert(a4, IndexOfName(a4, "mixer") + 1,
              [NewEl("nozzle_joint", "Nozzle") EXCEPT !.par = <<0>>])

NozzleMixingChoice_modify_architecture(c, arch, anp, dv) ==
    LET fp == fan_present(arch)
    IN Ret(IF fp /\ dv = <<TRUE>> THEN _include_mixing(arch) ELSE arch, anp, <<B(fp)>>)

\* ---- intercooler_choice.py (radius in units of 0.01, length in units of 0.005) ----
IntercoolerChoice(fix_include_ic, fix_ic_location, fixed_radius, fixed_length, fixed_number) ==
    [kind |-> "IntercoolerChoice",
     fix |-> <<fix_include_ic, fix_ic_location, fixed_radius, fixed_length, fixed_number>>]

IntercoolerChoice_get_design_variables(c) ==
    << DiscreteDesignVariable("include_ic", <<FALSE, TRUE>>, c.fix[1]),
       DiscreteDesignVariable("ic_location", <<0, 1, 2>>, c.fix[2]),
       ContinuousDesignVariable("radius", <<1, 5>>, c.fix[3]),
       ContinuousDesignVariable("length", <<2, 100>>, c.fix[4]),
       DiscreteDesignVariable("number", [i \in 1..250 |-> i], c.fix[5]) >>

_include_ic(arch, location, radius, length, number) ==
    LET comps == get_elements_by_type(arch, "Compressor")
        compressor == arch[comps[PyPos(comps, -1 - location)]]
        fan_splitter == arch[get_elements_by_type(arch, "Splitter")[1]]
        ic == [NewEl("intercooler", "HeatExchanger") EXCEPT
                  !.sources = <<compressor.name, fan_splitter.name>>,
                  !.par = <<radius, length, number>>,
                  !.target_fluid = compressor.target,
                  !.target_coolant = fan_splitter.target_bypass]
        a1 == [arch EXCEPT ![Pos(arch, compressor.name)].flow_out = "Fl_I1",
                           ![Pos(arch, compressor.name)].target = "intercooler",
                           ![Pos(arch, fan_splitter.name)].flow_out = "Fl_I2",
                           ![Pos(arch, fan_splitter.name)].target_bypass = "intercooler"]
    IN Insert(a1, IndexOfName(a1, compressor.name) + 1, ic)

\* modified_ic_location (lines 75-77): clamped to the turbines, 0 when include_ic is false
modified_ic_location(arch, include_ic, ic_location) ==
    LET turbines == CountKind(arch, "Turbine")
        m == IF ic_location <= turbines - 1 THEN ic_location ELSE turbines - 1
    IN IF include_ic THEN m ELSE 0

IntercoolerChoice_modify_architecture(c, arch, anp, dv) ==
    LET fp == fan_present(arch)
        loc == modified_ic_location(arch, dv[1], dv[2])
    IN Ret(IF fp /\ dv[1] THEN _include_ic(arch, loc, dv[3], dv[4], dv[5]) ELSE arch, anp,
           <<B(fp), V(loc), B(fp /\ dv[1]), B(fp /\ dv[1]), B(fp /\ dv[1])>>)

\* ---- offtakes_choice.py ----
OfftakesChoice(fix_power_offtake_location, fix_bleed_offtake_location) ==
    [kind |-> "OfftakesChoice",
     fix |-> <<fix_power_offtake_location, fix_bleed_offtake_location>>]

OfftakesChoice_get_design_variables(c) ==
    << DiscreteDesignVariable("power_offtake_location", <<0, 1, 2>>, c.fix[1]),
       DiscreteDesignVariable("bleed_offtake_location", <<0, 1, 2>>, c.fix[2]) >>

\* _power_location: the shaft counted from the last one, the first shaft when there are too few
_power_location(arch, anp, shaft_number) ==
    LET sh == get_elements_by_type(arch, "Shaft")
        shafts == Len(sh)
        k == IF shafts >= shaft_number + 1 THEN PyPos(sh, -1 - shaft_number)
             ELSE PyPos(sh, -shafts)
    IN [arch EXCEPT ![sh[k]].offtake = TRUE, ![sh[k]].par = Append(@, anp.power_offtake)]

\* the call of _bleed_location is commented out (line 65): no compressor gets offtake_bleed
OfftakesChoice_modify_architecture(c, arch, anp, dv) ==
    Ret(_power_location(arch, anp, dv[1]), anp, <<B(TRUE), B(TRUE)>>)

\* ---- cooling_bleed_choice.py (totals and fractions in units of 1/600) ----
CoolingBleedChoice(fix) == [kind |-> "CoolingBleedChoice", fix |-> fix]

CoolingBleedNames ==
    << "eb_hb_total", "eb_hbi_frac_w", "eb_hbl_frac_w", "eb_ih_total", "eb_ihi_frac_w", "eb_ihl_frac_w",
       "eb_li_total", "eb_lii_frac_w", "eb_lil_frac_w", "ab_hpc_total", "ab_hi_frac_w", "ab_hl_frac_w",
       "ab_ipc_total", "ab_ii_frac_w", "ab_il_frac_w", "ab_lpc_total", "ab_li_frac_w", "ab_ll_frac_w" >>

\* every third variable is a total (bounds (0, 0.1)), the others fractions (bounds (0, 1))
CoolingBleedChoice_get_design_variables(c) ==
    [j \in 1..18 |->
        ContinuousDesignVariable(CoolingBleedNames[j],
                                 IF j % 3 = 1 THEN <<0, 60>> ELSE <<0, 600>>, c.fix[j])]

\* x * total for values in units of 1/600
FracMul(x, total) == (x * total) \div 600

\* one pass of the loop of lines 152-161: [frac_hpt, frac[0], frac[1]] times the total
combined_fracs(turbines, total, frac0, frac1) ==
    LET f0a == IF turbines >= 2 THEN frac0 ELSE 0
        f1a == IF turbines = 3 THEN frac1 ELSE 0
        adj == IF turbines = 3 /\ f0a + f1a > 600 THEN <<200, 200>> ELSE <<f0a, f1a>>
        f0 == IF adj[1] >= 6 THEN adj[1] ELSE 0
        f1 == IF adj[2] >= 6 THEN adj[2] ELSE 0
        frac_hpt == IF 600 - f0 - f1 >= 6 THEN 600 - f0 - f1 ELSE 0
    IN <<FracMul(frac_hpt, total), FracMul(f0, total), FracMul(f1, total)>>

BleedTargets == <<"turbine", "turb_ip", "turb_lp">>

\* turbines[t].bleed_names.append(names[t]) for every target t with a non-zero fraction
RECURSIVE AppendTurbineBleeds(_, _, _, _, _)
AppendTurbineBleeds(arch, turbs, fr, names, t) ==
    IF t > 3 THEN arch
    ELSE With(IF fr[t] # 0
              THEN [arch EXCEPT ![Pos(arch, turbs[t])].bleed_names = Append(@, names[t])]
              ELSE arch, LAMBDA a : AppendTurbineBleeds(a, turbs, fr, names, t + 1))

Nonzero(fr) == SelectSeq(<<1, 2, 3>>, LAMBDA t : fr[t] # 0)

NumStr(number) == <<"0", "1", "2", "3", "4", "5", "6", "7", "8", "9">>[number + 1]

\* CoolingBleedChoice._include_bleed_inter (lines 195-243), loop passes number..len(turbines)-1
RECURSIVE CB_include_bleed_inter(_, _, _, _, _)
CB_include_bleed_inter(arch, comps, turbs, fractions, number) ==
    IF number >= Len(turbs) THEN arch
    ELSE IF SumSeq(fractions[number + 1]) = 0
    THEN CB_include_bleed_inter(arch, comps, turbs, fractions, number + 1)
    ELSE
      LET fr == fractions[number + 1]
          name == "bld_inter_" \o NumStr(number)
          names == [t \in 1..3 |-> name \o "_" \o BleedTargets[t]]
          nz == Nonzero(fr)
          a1 == AppendTurbineBleeds(arch, turbs, fr, names, 1)
          target == IF number > 0 THEN comps[PyPos(comps, -number)]
                    ELSE arch[get_elements_by_type(arch, "Burner")[1]].name
          src == comps[PyPos(comps, -1 - number)]
          bleed_inter == [NewEl(name, "BleedInter") EXCEPT
                             !.target = target,
                             !.connections = [k \in 1..Len(nz) |-> BleedTargets[nz[k]]],
                             !.bleed_names = [k \in 1..Len(nz) |-> names[nz[k]]],
                             !.par = [k \in 1..Len(nz) |-> fr[nz[k]]]]
          a2 == [a1 EXCEPT ![Pos(a1, src)].target = name]
          a3 == Insert(a2, IndexOfName(a2, src) + 1, bleed_inter)
      IN With(a3, LAMBDA a : CB_include_bleed_inter(a, comps, turbs, fractions, number + 1))

\* CoolingBleedChoice._include_bleed_intra (lines 245-293)
RECURSIVE CB_include_bleed_intra(_, _, _, _, _)
CB_include_bleed_intra(arch, comps, turbs, fractions, number) ==
    IF number >= Len(turbs) THEN arch
    ELSE IF SumSeq(fractions[number + 1]) = 0
    THEN CB_include_bleed_intra(arch, comps, turbs, fractions, number + 1)
    ELSE
      LET fr == fractions[number + 1]
          src == comps[PyPos(comps, -1 - number)]
          name == "bld_intra_" \o NumStr(number)
          source_name == IF number = 0 THEN "_hpc" ELSE IF number = 1 THEN "_ipc" ELSE "_lpc"
          names == [t \in 1..3 |-> name \o source_name \o <<"_hp", "_ip", "_lp">>[t]]
          nz == Nonzero(fr)
          a1 == [arch EXCEPT ![Pos(arch, src)].bleed_names =
                                  @ \o [k \in 1..Len(nz) |-> names[nz[k]]]]
          a2 == AppendTurbineBleeds(a1, turbs, fr, names, 1)
          bleed_intra == [NewEl(name, "BleedIntra") EXCEPT
                             !.sources = <<src>>,
                             !.connections = [k \in 1..Len(nz) |-> BleedTargets[nz[k]]],
                             !.bleed_names = [k \in 1..Len(nz) |-> names[nz[k]]],
                             !.par = [k \in 1..Len(nz) |-> fr[nz[k]]]]
          a3 == Insert(a2, IndexOfName(a2, src) + 1, bleed_intra)
      IN With(a3, LAMBDA a : CB_include_bleed_intra(a, comps, turbs, fractions, number + 1))

ElNames(arch, kind) ==
    [k \in 1..CountKind(arch, kind) |-> arch[get_elements_by_type(arch, kind)[k]].name]

CoolingBleedChoice_modify_architecture(c, arch, anp, dv) ==
    LET turbines == CountKind(arch, "Turbine")
        has_ip == turbines >= 2
        has_lp == turbines = 3
        totals == << dv[1], IF has_ip THEN dv[4] ELSE 0, IF has_lp THEN dv[7] ELSE 0,
                     dv[10], IF has_ip THEN dv[13] ELSE 0, IF has_lp THEN dv[16] ELSE 0 >>
        cf == [i \in 1..6 |-> combined_fracs(turbines, totals[i], dv[3 * i - 1], dv[3 * i])]
        a1 == CB_include_bleed_inter(arch, ElNames(arch, "Compressor"), ElNames(arch, "Turbine"),
                                     SubSeq(cf, 1, 3), 0)
        a2 == CB_include_bleed_intra(a1, ElNames(a1, "Compressor"), ElNames(a1, "Turbine"),
                                     SubSeq(cf, 4, 6), 0)
    IN Ret(a2, anp,
           << B(TRUE), V(cf[1][2]), V(cf[1][3]), V(totals[2]), V(cf[2][2]), V(cf[2][3]),
              V(totals[3]), V(cf[3][2]), V(cf[3][3]),
              B(TRUE), V(cf[4][2]), V(cf[4][3]), V(totals[5]), V(cf[5][2]), V(cf[5][3]),
              V(totals[6]), V(cf[6][2]), V(cf[6][3]) >>)

\* ---- bleed_choice.py (fractions in units of 0.005) ----
\* _options (lines 33-38): the combinations of ['atmos', 'hpt', 'ipt', 'lpt'] of size 1..4
_options ==
    << <<"atmos">>, <<"hpt">>, <<"ipt">>, <<"lpt">>,
       <<"atmos", "hpt">>, <<"atmos", "ipt">>, <<"atmos", "lpt">>,
       <<"hpt", "ipt">>, <<"hpt", "lpt">>, <<"ipt", "lpt">>,
       <<"atmos", "hpt", "ipt">>, <<"atmos", "hpt", "lpt">>, <<"atmos", "ipt", "lpt">>,
       <<"hpt", "ipt", "lpt">>, <<"atmos", "hpt", "ipt", "lpt">> >>

\* fix holds the 39 fix_* fields in the order of the dataclass
BleedChoice(fix) == [kind |-> "BleedChoice", fix |-> fix]

\* one group of six: include flag, options index, four fractions (s is the infix of the names)
BleedGroupVars(c, pre, s, first) ==
    << DiscreteDesignVariable("include_" \o pre, <<FALSE, TRUE>>, c.fix[first]),
       DiscreteDesignVariable("include_" \o pre \o "_options",
                              [i \in 1..Len(_options) |-> i - 1], c.fix[first + 1]),
       ContinuousDesignVariable(s \o "a_frac_w", <<2, 20>>, c.fix[first + 2]),
       ContinuousDesignVariable(s \o "h_frac_w", <<2, 20>>, c.fix[first + 3]),
       ContinuousDesignVariable(s \o "i_frac_w", <<2, 20>>, c.fix[first + 4]),
       ContinuousDesignVariable(s \o "l_frac_w", <<2, 20>>, c.fix[first + 5]) >>

\* 39 variables; include_bleed_inter takes fixed_value=self.fix_include_bleed (line 110)
BleedChoice_get_design_variables(c) ==
    << DiscreteDesignVariable("include_bleed", <<FALSE, TRUE>>, c.fix[1]),
       DiscreteDesignVariable("include_bleed_inter", <<FALSE, TRUE>>, c.fix[1]) >>
    \o BleedGroupVars(c, "eb_hb", "eb_hb", 3) \o BleedGroupVars(c, "eb_ih", "eb_ih", 9)
    \o BleedGroupVars(c, "eb_li", "eb_li", 15)
    \o << DiscreteDesignVariable("include_bleed_intra", <<FALSE, TRUE>>, c.fix[21]) >>
    \o BleedGroupVars(c, "ab_hpc", "ab_h", 22) \o BleedGroupVars(c, "ab_ipc", "ab_i", 28)
    \o BleedGroupVars(c, "ab_lpc", "ab_l", 34)

In(x, s) == \E k \in DOMAIN s : s[k] = x

\* the targets a bleed serves and fractions[targets.index(t)] for each (lines 325-343, 396-418)
BleedServed(targets, nturb) ==
    SelectSeq(<<"atmos", "hpt", "ipt", "lpt">>,
              LAMBDA t : In(t, targets) /\ (t = "ipt" => nturb >= 2) /\ (t = "lpt" => nturb = 3))

BleedTargetName(t) ==
    IF t = "atmos" THEN "atmos" ELSE IF t = "hpt" THEN "turbine"
    ELSE IF t = "ipt" THEN "turb_ip" ELSE "turb_lp"

TurbineOf(turbs, t) == IF t = "hpt" THEN turbs[1] ELSE IF t = "ipt" THEN turbs[2] ELSE turbs[3]

RECURSIVE AppendBleedNames(_, _, _, _)
AppendBleedNames(arch, turbs, served, names) ==
    IF served = <<>> THEN arch
    ELSE AppendBleedNames(
            IF Head(served) = "atmos" THEN arch
            ELSE [arch EXCEPT ![Pos(arch, TurbineOf(turbs, Head(served)))].bleed_names =
                                   Append(@, Head(names))],
            turbs, Tail(served), Tail(names))

\* BleedChoice._include_bleed_inter (lines 310-365): the element is appended at the end
B_include_bleed_inter(arch, targets, fractions, number) ==
    LET comps == ElNames(arch, "Compressor")
        turbs == ElNames(arch, "Turbine")
        name == "bld_inter_" \o NumStr(number)
        served == BleedServed(targets, Len(turbs))
        names == [k \in 1..Len(served) |-> name \o "_" \o BleedTargetName(served[k])]
        a1 == AppendBleedNames(arch, turbs, served, names)
        target == IF number = 0 THEN arch[get_elements_by_type(arch, "Burner")[1]].name
                  ELSE comps[PyPos(comps, -number)]
        el == [NewEl(name, "BleedInter") EXCEPT
                  !.target = target,
                  !.connections = [k \in 1..Len(served) |-> BleedTargetName(served[k])],
                  !.bleed_names = names,
                  !.par = [k \in 1..Len(served) |-> fractions[PosOf(targets, served[k])]]]
        a2 == [a1 EXCEPT ![Pos(a1, comps[PyPos(comps, -1 - number)])].target = name]
    IN Append(a2, el)

\* BleedChoice._include_bleed_intra (lines 367-427)
B_include_bleed_intra(arch, targets, fractions, number) ==
    LET comps == ElNames(arch, "Compressor")
        turbs == ElNames(arch, "Turbine")
        src == comps[PyPos(comps, -1 - number)]
        s_name == IF number = 0 THEN "_hpc" ELSE IF number = 1 THEN "_ipc" ELSE "_lpc"
        name == "bld_intra_" \o NumStr(number)
        served == BleedServed(targets, Len(turbs))
        suffix(t) == IF t = "atmos" THEN "_atmos" ELSE IF t = "hpt" THEN "_hp"
                     ELSE IF t = "ipt" THEN "_ip" ELSE "_lp"
        names == [k \in 1..Len(served) |-> name \o s_name \o suffix(served[k])]
        a1 == [arch EXCEPT ![Pos(arch, src)].bleed_names = @ \o names]
        a2 == AppendBleedNames(a1, turbs, served, names)
        el == [NewEl(name, "BleedIntra") EXCEPT
                  !.sources = <<src>>,
                  !.connections = [k \in 1..Len(served) |-> BleedTargetName(served[k])],
                  !.bleed_names = names,
                  !.par = [k \in 1..Len(served) |-> fractions[PosOf(targets, served[k])]]]
    IN Append(a2, el)

\* the five is_active entries of one group (lines 247-277): the group flag and its four targets;
\* need is has_ip / has_lp for the IP / LP groups (TRUE for the HP group)
BleedGroupActive(on, need, has_ip, has_lp, include, options, grp) ==
    LET g == on /\ need /\ include
    IN << B(g), B(g /\ In("atmos", options)), B(g /\ In("hpt", options)),
          B(g /\ In("ipt", options) /\ (grp = 0 => has_ip)),
          B(g /\ In("lpt", options) /\ (grp < 2 => has_lp)) >>

RECURSIVE BleedLoop(_, _, _, _, _, _)
BleedLoop(arch, inter, dv, first, turbines, i) ==
    IF i > 2 THEN arch
    ELSE LET base == first + 6 * i
             a1 == IF dv[base] /\ turbines - 1 >= i
                   THEN IF inter
                        THEN B_include_bleed_inter(arch, _options[dv[base + 1] + 1],
                                                   SubSeq(dv, base + 2, base + 5), i)
                        ELSE B_include_bleed_intra(arch, _options[dv[base + 1] + 1],
                                                   SubSeq(dv, base + 2, base + 5), i)
                   ELSE arch
         IN BleedLoop(a1, inter, dv, first, turbines, i + 1)

\* 34 entries are returned for the 39 declared variables (lines 245-278)
BleedChoice_modify_architecture(c, arch, anp, dv) ==
    LET turbines == CountKind(arch, "Turbine")
        has_ip == turbines >= 2
        has_lp == turbines = 3
        inter == dv[1] /\ dv[2]
        intra == dv[1] /\ dv[21]
        opt(k) == _options[dv[k] + 1]
        a1 == IF inter THEN BleedLoop(arch, TRUE, dv, 3, turbines, 0) ELSE arch
        a2 == IF intra THEN BleedLoop(a1, FALSE, dv, 22, turbines, 0) ELSE a1
    IN Ret(a2, anp,
           << B(TRUE), B(dv[1]), B(inter) >>
           \o BleedGroupActive(inter, TRUE, has_ip, has_lp, dv[3], opt(4), 0)
           \o BleedGroupActive(inter, has_ip, has_ip, has_lp, dv[9], opt(10), 1)
           \o BleedGroupActive(inter, has_lp, has_ip, has_lp, dv[15], opt(16), 2)
           \o << B(intra) >>
           \o BleedGroupActive(intra, TRUE, has_ip, has_lp, dv[22], opt(23), 0)
           \o BleedGroupActive(intra, has_ip, has_ip, has_lp, dv[28], opt(29), 1)
           \o BleedGroupActive(intra, has_lp, has_ip, has_lp, dv[34], opt(35), 2))

\* ---- fuel_choice.py ----
FuelChoice(fix_fuel_type) == [kind |-> "FuelChoice", fix |-> <<fix_fuel_type>>]

FuelChoice_get_design_variables(c) ==
    << DiscreteDesignVariable("fuel_type", <<0, 1, 2, 3, 4>>, c.fix[1]) >>

\* _select_fuel: the fuel of the first burner (0 JET_A, 1 JP_7, 2 H2, 3 CH4, other H2O)
FuelChoice_modify_architecture(c, arch, anp, dv) ==
    Ret([arch EXCEPT ![get_elements_by_type(arch, "Burner")[1]].par = <<dv[1]>>], anp, <<B(TRUE)>>)

\* ---- ArchitectingChoice interface, dispatched on the class ----
get_design_variables(c) ==
    CASE c.kind = "FuelChoice" -> FuelChoice_get_design_variables(c)
      [] c.kind = "FanChoice" -> FanChoice_get_design_variables(c)
      [] c.kind = "GearboxChoice" -> GearboxChoice_get_design_variables(c)
      [] c.kind = "ShaftChoice" -> ShaftChoice_get_design_variables(c)
      [] c.kind = "CRTFChoice" -> CRTFChoice_get_design_variables(c)
      [] c.kind = "AfterburnerChoice" -> AfterburnerChoice_get_design_variables(c)
      [] c.kind = "ITBChoice" -> ITBChoice_get_design_variables(c)
      [] c.kind = "BleedChoice" -> BleedChoice_get_design_variables(c)
      [] c.kind = "CoolingBleedChoice" -> CoolingBleedChoice_get_design_variables(c)
      [] c.kind = "NozzleMixingChoice" -> NozzleMixingChoice_get_design_variables(c)
      [] c.kind = "IntercoolerChoice" -> IntercoolerChoice_get_design_variables(c)
      [] c.kind = "OfftakesChoice" -> OfftakesChoice_get_design_variables(c)

get_construction_order(c) ==
    CASE c.kind = "FuelChoice" -> 0
      [] c.kind = "FanChoice" -> 1
      [] c.kind = "GearboxChoice" -> 2
      [] c.kind = "ShaftChoice" -> 3
      [] c.kind = "CRTFChoice" -> 4
      [] c.kind = "AfterburnerChoice" -> 5
      [] c.kind = "ITBChoice" -> 6
      [] c.kind = "BleedChoice" -> 6
      [] c.kind = "CoolingBleedChoice" -> 7
      [] c.kind = "NozzleMixingChoice" -> 8
      [] c.kind = "IntercoolerChoice" -> 9
      [] c.kind = "OfftakesChoice" -> 9

modify_architecture(c, arch, anp, dv) ==
    CASE c.kind = "FuelChoice" -> FuelChoice_modify_architecture(c, arch, anp, dv)
      [] c.kind = "FanChoice" -> FanChoice_modify_architecture(c, arch, anp, dv)
      [] c.kind = "GearboxChoice" -> GearboxChoice_modify_architecture(c, arch, anp, dv)
      [] c.kind = "ShaftChoice" -> ShaftChoice_modify_architecture(c, arch, anp, dv)
      [] c.kind = "CRTFChoice" -> CRTFChoice_modify_architecture(c, arch, anp, dv)
      [] c.kind = "AfterburnerChoice" -> AfterburnerChoice_modify_architecture(c, arch, anp, dv)
      [] c.kind = "ITBChoice" -> ITBChoice_modify_architecture(c, arch, anp, dv)
      [] c.kind = "BleedChoice" -> BleedChoice_modify_architecture(c, arch, anp, dv)
      [] c.kind = "CoolingBleedChoice" -> CoolingBleedChoice_modify_architecture(c, arch, anp, dv)
      [] c.kind = "NozzleMixingChoice" -> NozzleMixingChoice_modify_architecture(c, arch, anp, dv)
      [] c.kind = "IntercoolerChoice" -> IntercoolerChoice_modify_architecture(c, arch, anp, dv)
      [] c.kind = "OfftakesChoice" -> OfftakesChoice_modify_architecture(c, arch, anp, dv)

(***************************************************************************)
(* architecting/problem.py: ArchitectingProblem                             *)
(***************************************************************************)
\* sorted(choices, key=get_construction_order): stable, ties keep the order passed
MutSortedAsPassed(choices) == choices

RECURSIVE sorted(_)
sorted(choices) ==
    IF choices = <<>> THEN <<>>
    ELSE LET c == choices[Len(choices)]
             rest == sorted(SubSeq(choices, 1, Len(choices) - 1))
             le == SelectSeq(rest, LAMBDA x : get_construction_order(x) <= get_construction_order(c))
             gt == SelectSeq(rest, LAMBDA x : get_construction_order(x) > get_construction_order(c))
         IN le \o <<c>> \o gt

\* a metric is the list of the names of the objectives it yields (get_opt_objectives)
TSFCMetric == <<"tsfc">>

\* __init__ (lines 46-73): choices sorted by rank, empty caches; folder is save_results_folder
\* (FALSE for None); the objectives are [TSFCMetric()] unless set otherwise, constraints and
\* metrics default to []
ArchitectingProblem(choices, folder) ==
    [passed |-> choices, choices |-> sorted(choices), save_results_folder |-> folder,
     objectives |-> <<TSFCMetric>>, constraints |-> <<>>, metrics |-> <<>>]

\* self._opt_des_vars: the declarations grouped per choice, and the flat property opt_des_vars
_opt_des_vars(p) == [i \in 1..Len(p.choices) |-> get_design_variables(p.choices[i])]
opt_des_vars(p) == Concat(_opt_des_vars(p))
free_opt_des_vars(p) == SelectSeq(opt_des_vars(p), LAMBDA dv : ~is_fixed(dv))
opt_objectives(p) == Concat(p.objectives)

\* choice.get_constraints(): the names of the constraints a choice declares, none for most
get_constraints(c) ==
    CASE c.kind = "ShaftChoice" ->
             <<"max_pr_percentages_sum", "max_pr_hpc", "max_pr_ipc", "max_pr_lpc">>
      [] c.kind = "CoolingBleedChoice" ->
             <<"inter_hp", "inter_ip", "inter_lp", "intra_hp", "intra_ip", "intra_lp">>
      [] c.kind = "IntercoolerChoice" -> <<"max_intercooler_length_percentage">>
      [] OTHER -> <<>>

\* opt_constraints (lines 111-117): the constraints of the metrics, then those of the choices
opt_constraints(p) ==
    Concat(p.constraints) \o Concat([i \in 1..Len(p.choices) |-> get_constraints(p.choices[i])])

\* opt_metrics (lines 119-123)
opt_metrics(p) == Concat(p.metrics)

\* _check_definitions (lines 125-130): the exception raised, "none" if none is
_check_definitions(p) ==
    IF Len(free_opt_des_vars(p)) = 0 THEN "RuntimeError"
    ELSE IF Len(opt_objectives(p)) = 0 THEN "RuntimeError"
    ELSE "none"

\* get_full_design_vector (lines 265-284): [full, decoded, err].  One pass of the loop, for
\* the i-th variable, appends [full, decoded] or raises err; i_free is the number of free
\* variables passed before it.
FullEntry(dvars, free, i) ==
    LET des_var == dvars[i]
        i_free == Len(SelectSeq(SubSeq(dvars, 1, i - 1), LAMBDA dv : ~is_fixed(dv)))
    IN IF is_fixed(des_var)
       THEN LET fv == get_fixed_value(des_var)
                en == encode(des_var, fv.v)
            IN IF fv.err # "none" THEN [full |-> 0, decoded |-> 0, err |-> fv.err]
               ELSE IF en.err # "none" THEN [full |-> 0, decoded |-> 0, err |-> en.err]
               ELSE [full |-> en.v, decoded |-> fv.v, err |-> "none"]
       ELSE IF i_free >= Len(free) THEN [full |-> 0, decoded |-> 0, err |-> "IndexError"]
            ELSE LET de == decode(des_var, free[i_free + 1])
                 IN IF de.err # "none" THEN [full |-> 0, decoded |-> 0, err |-> de.err]
                    ELSE [full |-> free[i_free + 1], decoded |-> de.v, err |-> "none"]

\* the loop stops at the first pass that raises
FullFrom(dvars, free) ==
    LET pass == [i \in 1..Len(dvars) |-> FullEntry(dvars, free, i)] \o <<>>
        done == IF \A i \in 1..Len(dvars) : pass[i].err = "none" THEN Len(dvars)
                ELSE (CHOOSE i \in 1..Len(dvars) :
                          pass[i].err # "none" /\ \A j \in 1..(i - 1) : pass[j].err = "none") - 1
    IN [full |-> [i \in 1..done |-> pass[i].full] \o <<>>,
        decoded |-> [i \in 1..done |-> pass[i].decoded] \o <<>>,
        err |-> IF done = Len(dvars) THEN "none" ELSE pass[done + 1].err]

get_full_design_vector(p, free) == FullFrom(opt_des_vars(p), free)

\* get_free_design_vector (lines 286-288): the entries of the variables that are not fixed
get_free_design_vector(p, vec) ==
    LET dvars == opt_des_vars(p)
        keep == SelectSeq([i \in 1..Len(vec) |-> i], LAMBDA i : ~is_fixed(dvars[i]))
    IN [k \in 1..Len(keep) |-> vec[keep[k]]]

\* the imputation loop of generate_architecture (lines 248-254) over the entries of one
\* choice; st is [full, active, err].  One pass, for the j-th entry, leaves the vectors alone
\* (skip), overwrites position i_dv + j with v, or raises err.
ImputeEntry(dvars, i_dv, ret, j, n_full) ==
    LET e == ret[j]
    IN IF e.bool /\ e.b THEN [skip |-> TRUE, v |-> 0, err |-> "none"]
       ELSE IF j > Len(dvars) \/ i_dv + j > n_full
       THEN [skip |-> TRUE, v |-> 0, err |-> "IndexError"]
       ELSE IF e.bool THEN [skip |-> FALSE, v |-> get_imputed_value(dvars[j]), err |-> "none"]
       ELSE LET en == encode(dvars[j], e.v)
            IN IF en.err # "none" THEN [skip |-> TRUE, v |-> 0, err |-> en.err]
               ELSE [skip |-> FALSE, v |-> en.v, err |-> "none"]

\* the loop stops at the first pass that raises
Impute(st, dvars, i_dv, ret) ==
    LET pass == [j \in 1..Len(ret) |-> ImputeEntry(dvars, i_dv, ret, j, Len(st.full))] \o <<>>
        done == IF \A j \in 1..Len(ret) : pass[j].err = "none" THEN Len(ret)
                ELSE (CHOOSE j \in 1..Len(ret) :
                          pass[j].err # "none" /\ \A k \in 1..(j - 1) : pass[k].err = "none") - 1
        hit(k) == k - i_dv >= 1 /\ k - i_dv <= done /\ ~pass[k - i_dv].skip
    IN [full |-> [k \in 1..Len(st.full) |-> IF hit(k) THEN pass[k - i_dv].v ELSE st.full[k]] \o <<>>,
        active |-> [k \in 1..Len(st.active) |-> ~hit(k) /\ st.active[k]] \o <<>>,
        err |-> IF done = Len(ret) THEN "none" ELSE pass[done + 1].err]

\* the loop over the choices (lines 243-256); g accumulates the call's state, applied records
\* for every choice what it was handed (its slice, the architecture before), what it returned
\* and left (the architecture after), and the flags and encoded values of its slice afterwards
RECURSIVE ApplyChoices(_, _, _, _)
ApplyChoices(p, g, i, i_dv) ==
    IF i > Len(p.choices) \/ g.err # "none" THEN g
    ELSE LET dvars == _opt_des_vars(p)[i]
             n_dv == Len(dvars)
             slice == SubSeq(g.decoded, i_dv + 1, i_dv + n_dv)
             app(r, st) == [choice |-> p.choices[i], i_dv |-> i_dv, dv |-> slice, ret |-> r.ret,
                            before |-> g.arch, after |-> r.arch,
                            flags |-> SubSeq(st.active, i_dv + 1, i_dv + n_dv),
                            imputed |-> SubSeq(st.full, i_dv + 1, i_dv + n_dv)]
         IN With(modify_architecture(p.choices[i], g.arch, g.anp, slice), LAMBDA r :
                 IF r.err # "none"
                 THEN [g EXCEPT !.err = r.err, !.anp = r.anp]
                 ELSE With(Impute([full |-> g.full, active |-> g.active, err |-> "none"],
                                  dvars, i_dv, r.ret), LAMBDA st :
                           ApplyChoices(p, [g EXCEPT !.arch = r.arch, !.anp = r.anp,
                                                     !.full = st.full, !.active = st.active,
                                                     !.err = st.err, !.applied = Append(@, app(r, st))],
                                        i + 1, i_dv + n_dv)))

\* generate_architecture (lines 237-260).  The result keeps, next to the returned architecture
\* and imputed free vector, the intermediate values of the call.
generate_architecture(p, anp, design_vector) ==
    With(get_full_design_vector(p, design_vector), LAMBDA fd :
    With(ApplyChoices(p, [dv |-> design_vector, raw |-> fd.full, decoded |-> fd.decoded,
                          full |-> fd.full, active |-> [k \in 1..Len(fd.full) |-> TRUE],
                          applied |-> <<>>, arch |-> get_turbojet_architecture, anp |-> anp,
                          imputed |-> <<>>, is_active |-> <<>>, err |-> fd.err], 1, 0),
         LAMBDA g :
         IF g.err # "none" THEN g
         ELSE [g EXCEPT !.imputed = get_free_design_vector(p, g.full),
                        !.is_active = get_free_design_vector(p, g.active)]))

\* the in-domain free design vectors of a problem
RECURSIVE Vectors(_)
Vectors(dvars) ==
    IF dvars = <<>> THEN {<<>>}
    ELSE {<<x>> \o r : x \in SampleValues(Head(dvars)), r \in Vectors(Tail(dvars))}

Inputs(p) == Vectors(free_opt_des_vars(p))

(***************************************************************************)
(* State                                                                    *)
(***************************************************************************)
VARIABLES
    problem,          \* the ArchitectingProblem under test (fixed after construction)
    anp,              \* the shared AnalysisProblem: [turbine_in_temp, power_offtake]
    results_cache,    \* _results_cache: [none, d]; none is Python None, d the dict
    eval_id_cache,    \* _eval_id_cache: same shape
    last_eval_id,     \* _last_eval_id (0 is None)
    calls,            \* number of evaluate / generate_architecture calls so far
    last,             \* what the last call did and returned
    returned,         \* history: imputed key -> what the first returning evaluate gave for it
    solves,           \* history: imputed key -> number of evaluate_architecture runs
    architecture,     \* the architecture of the multi-point cycle
    n_od,             \* number of off-design (evaluate) conditions of the analysis problem
    pnts,             \* the cycles of the multi-point cycle, in the order they were added
    des_od,           \* the (source, target) pairs passed to pyc_connect_des_od, in order
    balance_connected_des_od,  \* ArchitectureMultiPointCycle.balance_connected_des_od
    phase,            \* "new", "points" (the multi-point setup returned), "setup" (every
                      \* point is set up), "failed" (an exception escaped)
    error,            \* the exception that escaped, "none" if none did
    reconnects,       \* number of further connect_des_od invocations after setup
    mp_log,           \* history: the calls made on the multi-point cycle, in order
    workers,          \* the chunks of the starmap in flight, each with its copy of the problem
    outs              \* what the last starmap returned to the orchestrating process

pool_vars == <<workers, outs>>
engine_vars == <<problem, anp, results_cache, eval_id_cache, last_eval_id, calls, last,
                 returned, solves, workers, outs>>
cycle_vars == <<architecture, n_od, pnts, des_od, balance_connected_des_od, phase, error,
               reconnects, mp_log>>
vars == <<problem, anp, results_cache, eval_id_cache, last_eval_id, calls, last, returned,
          solves, architecture, n_od, pnts, des_od, balance_connected_des_od, phase, error,
          reconnects, mp_log, workers, outs>>

MaxCalls == 3

None == <<>>
Fix(v) == <<v>>

\* the design condition of the analysis problem (turbine_in_temp in units of 0.01)
AnalysisProblem == [turbine_in_temp |-> 160000, power_offtake |-> 37]

NoCall == [op |-> "none", gen |-> generate_architecture(ArchitectingProblem(<<>>, FALSE),
                                                         AnalysisProblem, <<>>),
           ret |-> <<>>, err |-> "none", solved |-> FALSE]

EmptyCache == [none |-> FALSE, d |-> <<>>]

(***************************************************************************)
(* ArchitectingProblem.evaluate (architecting/problem.py)                   *)
(***************************************************************************)
\* the problems evaluate is exercised on: a fan whose bypass ratio is only active when the fan
\* is included, without and with a results folder; a fan, a gearbox and the shafts, where
\* ShaftChoice raises when it does not find the geared fan on the shaft
EvalProblems ==
    {ArchitectingProblem(<<FanChoice(None, None, Fix(30))>>, FALSE),
     ArchitectingProblem(<<FanChoice(None, None, Fix(30))>>, TRUE),
     ArchitectingProblem(<<FanChoice(None, Fix(20), Fix(30)), GearboxChoice(None, Fix(3)),
                           ShaftChoice(Fix(1), Fix(600), Fix(10), Fix(10), Fix(20), Fix(16),
                                       Fix(10))>>, FALSE)}

\* what evaluate_architecture + extract_metrics can produce: metric rows, or an exception
\* that evaluate turns into rows of NaN (lines 174-180)
Metrics == {"m1", "m2"}
Outcomes == Metrics \cup {"raise"}
EvalIds == {100000000, 999999998}

\* a single extraction that raises inside extract_metrics: the first metric of the objectives,
\* of the constraints or of the output metrics
ExtractFailures == {"fail_obj", "fail_con", "fail_met"}

\* variant: a failed extraction is dropped from the row
MutExtractRoleDropsFailure(metrics, failed) ==
    Concat([i \in 1..Len(metrics) |-> IF failed /\ i = 1 THEN <<>> ELSE <<"value">>])

\* one loop of extract_metrics (lines 310-315, 317-322, 334-339) over the metrics of a role:
\* extract_met of every shipped metric returns a list of one value, and a metric whose
\* extraction raises contributes one NaN
ExtractRole(metrics, failed) ==
    Concat([i \in 1..Len(metrics) |-> IF failed /\ i = 1 THEN <<"nan">> ELSE <<"value">>])

\* extract_metrics (lines 307-341): the three rows; evaluate_constraints of a choice returns
\* one value per constraint it declares (None for a choice that declares none)
extract_metrics(p, out) ==
    [obj |-> ExtractRole(p.objectives, out = "fail_obj"),
     con |-> ExtractRole(p.constraints, out = "fail_con")
             \o Concat([i \in 1..Len(p.choices) |->
                           [j \in 1..Len(get_constraints(p.choices[i])) |-> "value"]]),
     met |-> ExtractRole(p.metrics, out = "fail_met")]

\* the rows of evaluate (lines 173-180): those of extract_metrics, or np.zeros(len(...))*nan
\* for each of the three when the solve or the extraction raised
Rows(p, out) ==
    IF out = "raise"
    THEN [obj |-> [j \in 1..Len(opt_objectives(p)) |-> "nan"],
          con |-> [j \in 1..Len(opt_constraints(p)) |-> "nan"],
          met |-> [j \in 1..Len(opt_metrics(p)) |-> "nan"]]
    ELSE extract_metrics(p, out)

\* dict[key] = value
DictSet(d, key, value) == [k \in DOMAIN d \cup {key} |-> IF k = key THEN value ELSE d[k]]

\* _save_results (lines 198-232): None without a folder; with one, the files are written
\* (which the file system can refuse) and a random evaluation id is returned
_save_results(p, save_ok, id) ==
    IF ~p.save_results_folder THEN [v |-> 0, err |-> "none"]
    ELSE IF ~save_ok THEN [v |-> 0, err |-> "OSError"]
    ELSE [v |-> id, err |-> "none"]

\* evaluate (lines 161-196) after its first statement: gen is what generate_architecture
\* gave for the design vector
evaluate(gen, out, save_ok, id) ==
    LET dv_cache == gen.imputed
        values == IF out = "raise" THEN "nan" ELSE out
        result == <<gen.imputed, values, Rows(problem, out)>>
        saved == _save_results(problem, save_ok, id)
        call == [op |-> "evaluate", gen |-> gen, ret |-> <<>>, err |-> "none", solved |-> FALSE]
    IN /\ calls < MaxCalls
       /\ calls' = calls + 1
       /\ anp' = gen.anp
       /\ UNCHANGED <<problem, cycle_vars, pool_vars>>
       /\ IF gen.err # "none"
          THEN /\ last' = [call EXCEPT !.err = gen.err]
               /\ UNCHANGED <<results_cache, eval_id_cache, last_eval_id, returned, solves>>
          ELSE IF results_cache.none
          THEN /\ last' = [call EXCEPT !.err = "TypeError"]
               /\ UNCHANGED <<results_cache, eval_id_cache, last_eval_id, returned, solves>>
          ELSE IF dv_cache \in DOMAIN results_cache.d
          THEN /\ last_eval_id' = eval_id_cache.d[dv_cache]
               /\ last' = [call EXCEPT !.ret = results_cache.d[dv_cache]]
               /\ UNCHANGED <<results_cache, eval_id_cache, returned, solves>>
          ELSE /\ solves' = DictSet(solves, dv_cache,
                                    IF dv_cache \in DOMAIN solves THEN solves[dv_cache] + 1 ELSE 1)
               /\ IF saved.err # "none"
                  THEN /\ results_cache' = [none |-> TRUE, d |-> <<>>]
                       /\ eval_id_cache' = [none |-> TRUE, d |-> <<>>]
                       /\ last' = [call EXCEPT !.err = saved.err, !.solved = TRUE]
                       /\ UNCHANGED <<last_eval_id, returned>>
                  ELSE /\ results_cache' = [results_cache EXCEPT
                                               !.d = DictSet(@, dv_cache, result)]
                       /\ eval_id_cache' = [eval_id_cache EXCEPT !.d = DictSet(@, dv_cache, saved.v)]
                       /\ last_eval_id' = saved.v
                       /\ last' = [call EXCEPT !.ret = result, !.solved = TRUE]
                       /\ returned' = IF dv_cache \in DOMAIN returned THEN returned
                                      ELSE DictSet(returned, dv_cache, result)

Evaluate ==
    \E design_vector \in Inputs(problem) :
        LET gen == generate_architecture(problem, anp, design_vector)
        IN \E out \in Outcomes, save_ok \in BOOLEAN, id \in EvalIds :
               evaluate(gen, out, save_ok, id)

IdleCycle ==
    /\ architecture = get_turbojet_architecture
    /\ n_od = 0
    /\ pnts = <<>>
    /\ des_od = <<>>
    /\ balance_connected_des_od = {}
    /\ phase = "new"
    /\ error = "none"
    /\ reconnects = 0
    /\ mp_log = <<>>

FreshEngine ==
    /\ anp = AnalysisProblem
    /\ results_cache = EmptyCache
    /\ eval_id_cache = EmptyCache
    /\ last_eval_id = 0
    /\ calls = 0
    /\ last = NoCall
    /\ returned = <<>>
    /\ solves = <<>>
    /\ workers = <<>>
    /\ outs = <<>>

Init ==
    /\ problem \in EvalProblems
    /\ FreshEngine
    /\ IdleCycle

Next == Evaluate

Spec == Init /\ [][Next]_vars

(***************************************************************************)
(* C1: results are cached per imputed design vector                         *)
(***************************************************************************)
\* the last call was an evaluate whose generate_architecture produced an imputed vector
Evaluated == last.op = "evaluate" /\ last.gen.err = "none"

\* C1: over any sequence of evaluate calls on one problem, a call whose imputed design vector
\* equals that of an earlier call returns what the first such call returned (imputed vector,
\* objectives, constraints, metrics) without running evaluate_architecture, so that
\* evaluate_architecture runs at most once per distinct imputed vector.
C1_CachedPerImputedVector ==
    /\ \A k \in DOMAIN solves : solves[k] <= 1
    /\ (Evaluated /\ last.gen.imputed \in DOMAIN returned)
          => /\ last.err = "none"
             /\ last.ret = returned[last.gen.imputed]

(***************************************************************************)
(* ArchitectingProblem.generate_architecture called directly               *)
(***************************************************************************)
\* ShaftChoice with only the number of shafts free
ShaftNumberFree == ShaftChoice(None, Fix(600), Fix(10), Fix(10), Fix(20), Fix(16), Fix(10))

\* CoolingBleedChoice with the first two variables of the first inter-bleed free
CoolingBleedFirstFree == CoolingBleedChoice([j \in 1..18 |-> IF j <= 2 THEN None ELSE Fix(30)])

\* one group of six fix_* fields of BleedChoice
BleedGroupFix(include, option) == <<Fix(include), Fix(option), Fix(4), Fix(6), Fix(8), Fix(10)>>

\* BleedChoice with include_bleed (and with it include_bleed_inter) free
BleedIncludeFree ==
    BleedChoice(<<None, None>> \o BleedGroupFix(TRUE, 4) \o BleedGroupFix(TRUE, 1)
                \o BleedGroupFix(FALSE, 0) \o <<Fix(FALSE)>> \o BleedGroupFix(TRUE, 1)
                \o BleedGroupFix(FALSE, 0) \o BleedGroupFix(FALSE, 0))

\* FanChoice with only include_fan free
FanIncludeFree == FanChoice(None, Fix(20), Fix(30))

GenProblems ==
    {ArchitectingProblem(<<OfftakesChoice(None, None)>>, FALSE),
     ArchitectingProblem(<<NozzleMixingChoice(None), GearboxChoice(None, Fix(3)),
                           ShaftNumberFree, FanChoice(None, None, Fix(30))>>, FALSE),
     ArchitectingProblem(<<IntercoolerChoice(None, None, Fix(3), Fix(50), Fix(100)),
                           ShaftNumberFree, FanChoice(None, Fix(20), Fix(30))>>, FALSE),
     ArchitectingProblem(<<CoolingBleedFirstFree, ShaftNumberFree>>, FALSE),
     ArchitectingProblem(<<BleedIncludeFree, ITBChoice(None, Fix(4))>>, FALSE),
     ArchitectingProblem(<<GearboxChoice(None, Fix(3))>>, FALSE),
     ArchitectingProblem(<<ITBChoice(None, Fix(4)), ShaftNumberFree>>, FALSE),
     ArchitectingProblem(<<FanIncludeFree, GearboxChoice(None, Fix(3))>>, FALSE),
     ArchitectingProblem(<<FanIncludeFree, AfterburnerChoice(None, Fix(4)),
                           NozzleMixingChoice(None)>>, FALSE),
     ArchitectingProblem(<<FanIncludeFree, CRTFChoice(None), ShaftNumberFree,
                           NozzleMixingChoice(None)>>, FALSE),
     ArchitectingProblem(<<FanIncludeFree, GearboxChoice(None, Fix(3)), CRTFChoice(None),
                           ITBChoice(None, Fix(4)), AfterburnerChoice(None, Fix(4))>>, FALSE),
     ArchitectingProblem(<<FuelChoice(None), OfftakesChoice(None, None), ShaftNumberFree>>,
                         FALSE),
     ArchitectingProblem(<<FanIncludeFree, IntercoolerChoice(None, None, Fix(3), Fix(50),
                                                             Fix(100)),
                           ShaftNumberFree, NozzleMixingChoice(None)>>, FALSE),
     ArchitectingProblem(<<CoolingBleedFirstFree, BleedIncludeFree>>, FALSE),
     ArchitectingProblem(<<AfterburnerChoice(None, Fix(4)), ITBChoice(None, Fix(4)),
                           ShaftNumberFree>>, FALSE),
     ArchitectingProblem(<<OfftakesChoice(None, Fix(0)),
                           IntercoolerChoice(None, Fix(0), Fix(3), Fix(50), Fix(100))>>, FALSE)}

\* one call of generate_architecture on the problem
Generate ==
    \E design_vector \in Inputs(problem) :
        With(generate_architecture(problem, anp, design_vector), LAMBDA gen :
             /\ calls < MaxCalls
             /\ calls' = calls + 1
             /\ anp' = gen.anp
             /\ last' = [op |-> "generate", gen |-> gen, ret |-> <<>>, err |-> gen.err,
                         solved |-> FALSE]
             /\ UNCHANGED <<problem, results_cache, eval_id_cache, last_eval_id, returned, solves,
                            cycle_vars, pool_vars>>)

\* the repair step of pymoo hands back the imputed vector of a call (pymoo.py lines 141-179),
\* and the evaluation that follows calls generate_architecture on it
GenerateImputed ==
    /\ last.op = "generate"
    /\ last.err = "none"
    /\ calls < MaxCalls
    /\ With(generate_architecture(problem, anp, last.gen.imputed), LAMBDA gen :
            /\ calls' = calls + 1
            /\ anp' = gen.anp
            /\ last' = [op |-> "generate_imputed", gen |-> gen, ret |-> <<>>, err |-> gen.err,
                        solved |-> FALSE, first |-> last.gen]
            /\ UNCHANGED <<problem, results_cache, eval_id_cache, last_eval_id, returned, solves,
                           cycle_vars, pool_vars>>)

InitGenerate ==
    /\ problem \in GenProblems
    /\ FreshEngine
    /\ IdleCycle

NextGenerate == Generate \/ GenerateImputed

SpecGenerate == InitGenerate /\ [][NextGenerate]_vars

\* the last call was a generate_architecture that returned
Generated == last.op = "generate" /\ last.err = "none"

(***************************************************************************)
(* C2: canonicalization                                                     *)
(***************************************************************************)
\* C2: for every pair of in-domain raw design vectors that select the same architectural
\* features with the same effective values (the architectures generated from them are equal,
\* element for element and parameter for parameter), generate_architecture returns identical
\* imputed design vectors.
C2_Canonicalization ==
    Generated =>
        \A v \in Inputs(problem) :
            With(generate_architecture(problem, AnalysisProblem, v), LAMBDA other :
                 (other.err = "none" /\ other.arch = last.gen.arch)
                     => other.imputed = last.gen.imputed)

(***************************************************************************)
(* C3: the imputation rule                                                  *)
(***************************************************************************)
\* the entries of the choices applied by the last call: <<applied choice, j>>
Entries == {<<i, j>> \in (1..8) \X (1..39) :
               i <= Len(last.gen.applied) /\ j <= Len(last.gen.applied[i].ret)}

EntryOf(ij) == last.gen.applied[ij[1]].ret[ij[2]]
VariableOf(ij) == get_design_variables(last.gen.applied[ij[1]].choice)[ij[2]]
IndexOf(ij) == last.gen.applied[ij[1]].i_dv + ij[2]

\* C3: for the entry e a choice returns for its j-th variable: True keeps the caller's encoded
\* value and flags the variable active; False replaces the value by the midpoint of the bounds
\* (continuous) or index 0 (discrete) and flags it inactive; any other value, numeric 0
\* included, replaces it by the encoding of that value and flags it inactive.  The imputed
\* vector returned is the full vector restricted to the free variables.
C3_ImputationRule ==
    Generated =>
        /\ \A ij \in Entries :
              LET e == EntryOf(ij)
                  dvar == VariableOf(ij)
                  idx == IndexOf(ij)
                  g == last.gen
              IN IF e.bool /\ e.b
                 THEN g.full[idx] = g.raw[idx] /\ g.active[idx]
                 ELSE IF e.bool
                 THEN /\ g.full[idx] = IF dvar.type = "cont"
                                       THEN (dvar.bounds[1] + dvar.bounds[2]) \div 2 ELSE 0
                      /\ ~g.active[idx]
                 ELSE /\ g.full[idx] = IF dvar.type = "cont" THEN e.v
                                       ELSE PosOf(dvar.values, e.v) - 1
                      /\ ~g.active[idx]
        /\ last.gen.imputed = get_free_design_vector(problem, last.gen.full)
        /\ last.gen.is_active = get_free_design_vector(problem, last.gen.active)

\* a call in which one choice returned True, another entry False for a continuous variable
\* whose raw value was not the midpoint, and a third the numeric override 0 for a variable
\* whose raw value was not 0
C3_Witness ==
    /\ Generated
    /\ \E ij \in Entries : EntryOf(ij).bool /\ EntryOf(ij).b
    /\ \E ij \in Entries : /\ EntryOf(ij).bool /\ ~EntryOf(ij).b
                           /\ VariableOf(ij).type = "cont"
                           /\ last.gen.raw[IndexOf(ij)] # last.gen.full[IndexOf(ij)]
    /\ \E ij \in Entries : /\ ~EntryOf(ij).bool /\ EntryOf(ij).v = 0
                           /\ last.gen.raw[IndexOf(ij)] # 0
                           /\ last.gen.full[IndexOf(ij)] = 0

(***************************************************************************)
(* C4: activity-count consistency                                           *)
(***************************************************************************)
\* C4: every applied choice returns exactly as many activity/override entries as
\* get_design_variables declares for it.
C4_ActivityCount ==
    Generated =>
        \A i \in 1..Len(last.gen.applied) :
            Len(last.gen.applied[i].ret) = Len(get_design_variables(last.gen.applied[i].choice))

(***************************************************************************)
(* C5: application order and slices                                         *)
(***************************************************************************)
\* the number of variables declared by the choices applied before the i-th
SliceStart(i) ==
    SumSeq([k \in 1..(i - 1) |-> Len(get_design_variables(last.gen.applied[k].choice))])

\* C5: the choices are applied in ascending construction-order rank whatever order they were
\* passed in; the i-th applied choice gets the contiguous slice of the full decoded vector that
\* starts at the number of variables declared by the choices before it and has the length of
\* its own declaration; the slices partition the vector, keep declaration order, and hold for
\* a fixed variable its fixed value.
C5_OrderAndSlices ==
    Generated =>
        LET ap == last.gen.applied
            n(i) == Len(get_design_variables(ap[i].choice))
        IN /\ Len(ap) = Len(problem.passed)
           /\ {ap[i].choice : i \in 1..Len(ap)} = Range(problem.passed)
           /\ \A i, k \in 1..Len(ap) :
                 i < k => get_construction_order(ap[i].choice) <= get_construction_order(ap[k].choice)
           /\ \A i \in 1..Len(ap) :
                 /\ ap[i].i_dv = SliceStart(i)
                 /\ ap[i].dv = SubSeq(last.gen.decoded, SliceStart(i) + 1, SliceStart(i) + n(i))
                 /\ \A j \in 1..n(i) :
                       LET dvar == get_design_variables(ap[i].choice)[j]
                           raw == last.gen.raw[SliceStart(i) + j]
                       IN ap[i].dv[j] = IF dvar.fixed # <<>> THEN dvar.fixed[1]
                                        ELSE IF dvar.type = "cont" THEN raw
                                        ELSE dvar.values[raw + 1]
           /\ SliceStart(Len(ap) + 1) = Len(last.gen.decoded)

\* a call on a problem whose choices were passed in an order that is not ascending in rank
C5_Witness ==
    /\ Generated
    /\ Len(last.gen.applied) >= 3
    /\ \E i \in 1..(Len(problem.passed) - 1) :
          get_construction_order(problem.passed[i]) > get_construction_order(problem.passed[i + 1])
    /\ \E i \in 1..Len(last.gen.applied) :
          \E j \in DOMAIN last.gen.applied[i].dv :
              is_fixed(get_design_variables(last.gen.applied[i].choice)[j])

(***************************************************************************)
(* evaluation/analysis/builder.py: ArchitectureCycle                        *)
(*                                                                          *)
(* A cycle is [design, built, elements, conns, balances, order, err]:       *)
(* elements are the pyCycle elements in the order they were added, conns    *)
(* the connections [src, tgt, flow] with src and tgt <<element, port>>,     *)
(* balances the equations of engine_balance as [name, rhs].  A loop that    *)
(* connects is modelled by the sequence of connections its passes make.     *)
(***************************************************************************)
NewCycle(design) ==
    [design |-> design, built |-> FALSE, elements |-> <<>>, conns |-> <<>>,
     balances |-> <<>>, order |-> <<>>, err |-> "none"]

\* the connection made by cycle.connect(src, tgt) and by cycle.pyc_connect_flow(src, tgt)
connect(se, sp, te, tp) == [src |-> <<se, sp>>, tgt |-> <<te, tp>>, flow |-> FALSE]
pyc_connect_flow(se, sp, te, tp) == [src |-> <<se, sp>>, tgt |-> <<te, tp>>, flow |-> TRUE]

\* the cycle after the connections cs were made, and after an element was added
Connected(c, cs) == [c EXCEPT !.conns = @ \o cs]
pyc_add_element(c, name, kind) ==
    [c EXCEPT !.elements = Append(@, [name |-> name, kind |-> kind])]

\* the position of the first entry of errs that is not "none", Len(errs) + 1 if there is none
FirstError(errs) ==
    IF \A k \in 1..Len(errs) : errs[k] = "none" THEN Len(errs) + 1
    ELSE CHOOSE k \in 1..Len(errs) : errs[k] # "none" /\ \A j \in 1..(k - 1) : errs[j] = "none"

\* ArchElement._connect_flow_target (architecture.py lines 57-59)
_connect_flow_target(el, target, out_flow, in_flow) ==
    IF target # "None" THEN <<pyc_connect_flow(el.name, out_flow, target, in_flow)>> ELSE <<>>

FlowIn(el) == IF el.flow_out = "None" THEN "Fl_I" ELSE el.flow_out

\* the pyCycle class an element adds itself as; BleedIntra adds nothing, and neither does the
\* baseline's 'bleed', whose class is not part of the sources
PycKind(kind) ==
    IF kind = "Burner" THEN "Combustor" ELSE IF kind = "BleedInter" THEN "BleedOut" ELSE kind

\* what <element>.add_element raises (turbomachinery.py lines 71-72, 154-155, 217-218)
AddElementError(el) ==
    IF el.kind \in {"Compressor", "Turbine"} /\ el.shaft = "None"
    THEN "ValueError: not connected to shaft"
    ELSE IF el.kind = "Shaft" /\ Len(el.connections) < 2 THEN "ValueError: shaft connections"
    ELSE "none"

\* <element>.add_element for every element, up to the first that raises (builder.py
\* lines 186-187)
add_elements(c, arch) ==
    LET errs == [k \in 1..Len(arch) |-> AddElementError(arch[k])] \o <<>>
        added == SelectSeq(SubSeq(arch, 1, FirstError(errs) - 1),
                           LAMBDA el : el.kind \notin {"BleedIntra", "Bleed"})
    IN [c EXCEPT !.elements = @ \o ([k \in 1..Len(added) |->
                                        [name |-> added[k].name, kind |-> PycKind(added[k].kind)]]
                                    \o <<>>),
                 !.err = IF FirstError(errs) > Len(arch) THEN "none" ELSE errs[FirstError(errs)]]

\* the bleed flows of a BleedInter (source is the element itself) or BleedIntra (its source):
\* one per bleed that does not go to the atmosphere
ConnectBleeds(el, source) ==
    LET ks == SelectSeq([i \in 1..Len(el.bleed_names) |-> i],
                        LAMBDA i : el.connections[i] # "atmos")   \* 'atmos' not in bleed_name
    IN [k \in 1..Len(ks) |-> pyc_connect_flow(source, el.bleed_names[ks[k]],
                                              el.connections[ks[k]], el.bleed_names[ks[k]])]
       \o <<>>

\* Shaft.connect (turbomachinery.py lines 227-230); ports are numbered from 0
ConnectShaft(arch, el) ==
    LET ks == SelectSeq([i \in 1..Len(el.connections) |-> i],
                        LAMBDA i : arch[Pos(arch, el.connections[i])].kind # "Gearbox")
    IN [k \in 1..Len(ks) |-> connect(el.connections[ks[k]], "trq",
                                     el.name, "trq_" \o NumStr(ks[k] - 1))] \o <<>>

\* <element>.connect for one element (flow.py, turbomachinery.py)
connect_element(arch, el) ==
    IF el.kind = "Inlet"
    THEN <<pyc_connect_flow("fc", "Fl_O", el.name, "Fl_I")>>
         \o _connect_flow_target(el, el.target, "Fl_O", "Fl_I")
    ELSE IF el.kind \in {"Duct", "Mixer", "Burner", "Turbine"}
    THEN _connect_flow_target(el, el.target, "Fl_O", "Fl_I")
    ELSE IF el.kind = "Splitter"
    THEN _connect_flow_target(el, el.target_core, "Fl_O1", "Fl_I")
         \o _connect_flow_target(el, el.target_bypass, "Fl_O2", FlowIn(el))
    ELSE IF el.kind = "Compressor" THEN _connect_flow_target(el, el.target, "Fl_O", FlowIn(el))
    ELSE IF el.kind = "BleedInter"
    THEN _connect_flow_target(el, el.target, "Fl_O", "Fl_I") \o ConnectBleeds(el, el.name)
    ELSE IF el.kind = "BleedIntra" THEN ConnectBleeds(el, el.sources[1])
    ELSE IF el.kind = "Nozzle"
    THEN IF el.target = "None" THEN <<connect("fc", "Fl_O:stat:P", el.name, "Ps_exhaust")>>
         ELSE _connect_flow_target(el, el.target, "Fl_O", el.flow_out)
    ELSE IF el.kind = "HeatExchanger"
    THEN _connect_flow_target(el, el.target_fluid, "Fl_O1", "Fl_I")
         \o _connect_flow_target(el, el.target_coolant, "Fl_O2", "Fl_I")
    ELSE IF el.kind = "Gearbox"
    THEN <<connect(el.name, "trq_in", el.sources[1], "trq_2"),
           connect(el.name, "trq_out", el.sources[2], "trq_1")>>
    ELSE IF el.kind = "Shaft" THEN ConnectShaft(arch, el)
    ELSE <<>>

\* <element>.connect for every element (builder.py lines 190-191)
connect_elements(c, arch) ==
    Connected(c, Concat([k \in 1..Len(arch) |-> connect_element(arch, arch[k])]))

\* <element>.add_element_prepare for every element (builder.py lines 184-185): only Shaft
\* does something, it sets the shaft reference of its connections (turbomachinery.py
\* lines 206-214); shafts are the positions of the shafts, k the next one; [arch, err]
RECURSIVE add_elements_prepare(_, _, _)
add_elements_prepare(arch, shafts, k) ==
    IF k > Len(shafts) THEN [arch |-> arch, err |-> "none"]
    ELSE IF ShaftRefClash(arch, arch[shafts[k]].name)
    THEN [arch |-> arch, err |-> "ValueError: shaft already set"]
    ELSE add_elements_prepare(_set_shaft_ref(arch, arch[shafts[k]].name) \o <<>>, shafts, k + 1)

\* the names of the pyCycle elements of a class, in the order they were added
get_element_names(c, kind) ==
    LET ks == SelectSeq([i \in 1..Len(c.elements) |-> i], LAMBDA i : c.elements[i].kind = kind)
    IN [k \in 1..Len(ks) |-> c.elements[ks[k]].name] \o <<>>

\* the first connection into <element>.Fl_I made by pyc_connect_flow, 0 if there is none
IncomingFlow(c, name) ==
    LET ks == SelectSeq([i \in 1..Len(c.conns) |-> i],
                        LAMBDA i : c.conns[i].flow /\ c.conns[i].tgt = <<name, "Fl_I">>)
    IN IF ks = <<>> THEN 0 ELSE ks[1]

\* the number of elements of a class added before the k-th
CountBefore(c, kind, k) == Len(SelectSeq(SubSeq(c.elements, 1, k - 1), LAMBDA e : e.kind = kind))

\* what the pass of _connect_performance (builder.py lines 212-240) for the k-th element
\* raises, and the connections it makes
ConnectPerformanceError(c, k) ==
    IF c.elements[k].kind = "Combustor" /\ CountBefore(c, "Combustor", k) = 0
       /\ IncomingFlow(c, c.elements[k].name) = 0
    THEN "RuntimeError: burner has no incoming flow" ELSE "none"

ConnectPerformance(c, k) ==
    LET el == c.elements[k]
        src_el_name == c.conns[IncomingFlow(c, el.name)].src[1]
    IN IF el.kind = "Nozzle"
       THEN <<connect(el.name, "Fg", "perf", "Fg_" \o NumStr(CountBefore(c, "Nozzle", k)))>>
       ELSE IF el.kind = "Combustor"
       THEN <<connect(el.name, "Wfuel", "perf",
                      "Wfuel_" \o NumStr(CountBefore(c, "Combustor", k)))>>
            \o (IF CountBefore(c, "Combustor", k) = 0 /\ IncomingFlow(c, el.name) # 0
                THEN <<connect(src_el_name, IF src_el_name # "intercooler" THEN "Fl_O:tot:P"
                                            ELSE "Fl_O1:tot:P", "perf", "Pt3")>>
                ELSE <<>>)
       ELSE IF el.kind = "Inlet"
       THEN <<connect(el.name, "F_ram", "perf", "ram_drag"),
              connect(el.name, "Fl_O:tot:P", "perf", "Pt2")>>
       ELSE <<>>

\* _connect_performance: the passes up to the first that raises
_connect_performance(c) ==
    LET errs == [k \in 1..Len(c.elements) |-> ConnectPerformanceError(c, k)] \o <<>>
        last_pass == IF FirstError(errs) > Len(errs) THEN Len(errs) ELSE FirstError(errs)
    IN [Connected(c, Concat([k \in 1..last_pass |-> ConnectPerformance(c, k)]))
           EXCEPT !.err = IF FirstError(errs) > Len(errs) THEN "none" ELSE errs[FirstError(errs)]]

(***************************************************************************)
(* evaluation/analysis/balancer.py                                          *)
(***************************************************************************)
balance_name == "engine_balance"

\* balance.add_balance(name, rhs_name=...): rhs is the name of the input holding the
\* right-hand side, rhs:<name> when none is given
add_balance(name, rhs) == [name |-> name, rhs |-> rhs]

\* the balance variable drives tgt, and the left-hand side of the residual is computed by src
BalanceConnections(name, te, tp, se, sp) ==
    <<connect(balance_name, name, te, tp), connect(se, sp, balance_name, "lhs:" \o name)>>

\* the cycle after balances were added and connected
Balanced(c, balances, cs) == [c EXCEPT !.balances = @ \o balances, !.conns = @ \o cs]

\* _balance_extraction_bleed (lines 78-88 and 190-200)
_balance_extraction_bleed(c, arch) ==
    LET sources == SelectSeq(arch, LAMBDA el : el.kind = "Compressor" /\ el.offtake)
    IN Balanced(c, <<add_balance("extraction_bleed", "extraction_bleed_target")>>,
                Concat([k \in 1..Len(sources) |->
                           BalanceConnections("extraction_bleed",
                                              sources[k].name, "bleed_offtake_atmos:frac_W",
                                              sources[k].name, "bleed_offtake_atmos:stat:W")]))

\* runs the next step of a setup unless an earlier step raised
Ok(c, F(_)) == IF c.err # "none" THEN c ELSE F(c)

\* DesignBalancer._balance_thrust (lines 68-76); inlet_el_name is builder.py lines 168-173
DesignBalancer_balance_thrust(c) ==
    IF get_element_names(c, "Inlet") = <<>>
    THEN [Balanced(c, <<add_balance("W", "Fn_target")>>, <<>>)
             EXCEPT !.err = "RuntimeError: no inlet defined in cycle"]
    ELSE Balanced(c, <<add_balance("W", "Fn_target")>>,
                  BalanceConnections("W", get_element_names(c, "Inlet")[1], "Fl_I:stat:W",
                                     "perf", "Fn"))

\* DesignBalancer._balance_turbine_temp (lines 90-100)
_balance_turbine_temp(c) ==
    IF get_element_names(c, "Combustor") = <<>>
    THEN [Balanced(c, <<add_balance("FAR", "T4_target")>>, <<>>) EXCEPT !.err = "IndexError"]
    ELSE Balanced(c, <<add_balance("FAR", "T4_target")>>,
                  BalanceConnections("FAR", get_element_names(c, "Combustor")[1], "Fl_I:FAR",
                                     get_element_names(c, "Combustor")[1], "Fl_O:tot:T"))

\* DesignBalancer._balance_shaft_power (lines 102-118)
DesignBalancer_balance_shaft_power(c, arch) ==
    LET turbines == SelectSeq(arch, LAMBDA el : el.kind = "Turbine")
    IN Balanced(c, [k \in 1..Len(turbines) |->
                       add_balance(turbines[k].name \o "_PR", "rhs:" \o turbines[k].name \o "_PR")]
                   \o <<>>,
                Concat([k \in 1..Len(turbines) |->
                           BalanceConnections(turbines[k].name \o "_PR", turbines[k].name, "PR",
                                              turbines[k].shaft, "pwr_net")]))

\* DesignBalancer._balance_gearbox (lines 120-127)
_balance_gearbox(c, arch) ==
    IF get_elements_by_type(arch, "Gearbox") # <<>>
    THEN Balanced(c, <<add_balance("gb_trq", "rhs:gb_trq")>>,
                  BalanceConnections("gb_trq", "gearbox", "trq_base", "fan_shaft", "pwr_net"))
    ELSE c

\* DesignBalancer._balance_mixer (lines 129-136)
_balance_mixer(c, arch) ==
    IF get_elements_by_type(arch, "Mixer") # <<>>
    THEN Balanced(c, <<add_balance("BPR", "rhs:BPR")>>,
                  BalanceConnections("BPR", "splitter", "BPR", "mixer", "ER"))
    ELSE c

\* DesignBalancer.apply (lines 55-63)
DesignBalancer_apply(c, arch) ==
    Ok(Ok(Ok(Ok(Ok(DesignBalancer_balance_thrust(c),
                   LAMBDA c1 : _balance_extraction_bleed(c1, arch)),
                LAMBDA c2 : _balance_turbine_temp(c2)),
             LAMBDA c3 : DesignBalancer_balance_shaft_power(c3, arch)),
          LAMBDA c4 : _balance_gearbox(c4, arch)),
       LAMBDA c5 : _balance_mixer(c5, arch))

\* OffDesignBalancer._balance_thrust (lines 178-188)
OffDesignBalancer_balance_thrust(c) ==
    IF get_element_names(c, "Combustor") = <<>>
    THEN [Balanced(c, <<add_balance("FAR", "Fn_target")>>, <<>>) EXCEPT !.err = "IndexError"]
    ELSE Balanced(c, <<add_balance("FAR", "Fn_target")>>,
                  BalanceConnections("FAR", get_element_names(c, "Combustor")[1], "Fl_I:FAR",
                                     "perf", "Fn"))

\* the names of the elements of a kind, in the order of architecture.elements
NamesOf(arch, kind) ==
    [k \in 1..CountKind(arch, kind) |-> arch[get_elements_by_type(arch, kind)[k]].name] \o <<>>

\* the (component, element) pairs _iter_nozzle_balances enumerates
NozzleFeeders(arch) ==
    ([k \in 1..CountKind(arch, "Inlet") |-> <<"inlet", NamesOf(arch, "Inlet")[k]>>] \o <<>>)
    \o ([k \in 1..CountKind(arch, "Splitter") |-> <<"splitter", NamesOf(arch, "Splitter")[k]>>]
        \o <<>>)
    \o ([k \in 1..CountKind(arch, "Mixer") |-> <<"mixer", NamesOf(arch, "Mixer")[k]>>] \o <<>>)

\* OffDesignBalancer._iter_nozzle_balances (lines 202-218): [err, items], an item being
\* [component, el_name, nozzle_name, param_name]; i counts from 0
_iter_nozzle_balances(arch) ==
    IF Len(NozzleFeeders(arch)) # CountKind(arch, "Nozzle")
    THEN [err |-> "RuntimeError: number of nozzles", items |-> <<>>]
    ELSE [err |-> "none",
          items |-> [k \in 1..Len(NozzleFeeders(arch)) |->
                        [component |-> NozzleFeeders(arch)[k][1],
                         el_name |-> NozzleFeeders(arch)[k][2],
                         nozzle_name |-> NamesOf(arch, "Nozzle")[k],
                         param_name |-> (IF NozzleFeeders(arch)[k][1] = "inlet" THEN "W"
                                         ELSE IF NozzleFeeders(arch)[k][1] = "splitter" THEN "BPR"
                                         ELSE "ER") \o "_" \o NumStr(k - 1)]] \o <<>>]

\* OffDesignBalancer._balance_areas (lines 220-246): a mixer gets neither balance nor
\* connection
_balance_areas(c, arch) ==
    IF _iter_nozzle_balances(arch).err # "none"
    THEN [c EXCEPT !.err = _iter_nozzle_balances(arch).err]
    ELSE LET items == SelectSeq(_iter_nozzle_balances(arch).items,
                                LAMBDA it : it.component # "mixer")
         IN Balanced(c, [k \in 1..Len(items) |->
                            add_balance(items[k].param_name, "rhs:" \o items[k].param_name)]
                        \o <<>>,
                     Concat([k \in 1..Len(items) |->
                                <<connect(balance_name, items[k].param_name, items[k].el_name,
                                          IF items[k].component = "inlet" THEN "Fl_I:stat:W"
                                          ELSE "BPR"),
                                  connect(items[k].nozzle_name, "Throat:stat:area",
                                          balance_name, "lhs:" \o items[k].param_name)>>]))

\* OffDesignBalancer._balance_shaft_power (lines 258-274); the balance drives the input
\* Nmech of the shaft, promoted as <shaft>_Nmech
OffDesignBalancer_balance_shaft_power(c, arch) ==
    LET shafts == NamesOf(arch, "Shaft")
    IN Balanced(c, [k \in 1..Len(shafts) |->
                       add_balance(shafts[k] \o "_Nmech", "rhs:" \o shafts[k] \o "_Nmech")] \o <<>>,
                Concat([k \in 1..Len(shafts) |->
                           BalanceConnections(shafts[k] \o "_Nmech", shafts[k], "Nmech",
                                              shafts[k], "pwr_net")]))

\* cycle.set_order([balance_name] + names of the pyCycle elements)
set_order(c) ==
    [c EXCEPT !.order = <<balance_name>>
                        \o ([k \in 1..Len(c.elements) |-> c.elements[k].name] \o <<>>)]

\* OffDesignBalancer.apply (lines 163-173)
OffDesignBalancer_apply(c, arch) ==
    Ok(Ok(Ok(Ok(OffDesignBalancer_balance_thrust(c),
                LAMBDA c1 : _balance_extraction_bleed(c1, arch)),
             LAMBDA c2 : _balance_areas(c2, arch)),
          LAMBDA c3 : OffDesignBalancer_balance_shaft_power(c3, arch)),
       LAMBDA c4 : set_order(c4))

\* ArchitectureCycle.setup (builder.py lines 179-196) of cycle c: [cycle, arch]; preparing the
\* elements sets shaft references on the shared architecture
ArchitectureCycle_setup(c, arch) ==
    With(add_elements_prepare(arch, get_elements_by_type(arch, "Shaft"), 1), LAMBDA prep :
         [arch |-> prep.arch,
          cycle |->
              With(Ok(Ok(Ok(Ok(Ok([pyc_add_element(c, "fc", "FlightConditions")
                                      EXCEPT !.err = prep.err],
                               LAMBDA c1 : add_elements(c1, prep.arch)),
                            LAMBDA c2 : pyc_add_element(c2, "perf", "Performance")),
                         LAMBDA c3 : connect_elements(c3, prep.arch)),
                      LAMBDA c4 : _connect_performance(c4)),
                   LAMBDA c5 : IF c5.design THEN DesignBalancer_apply(c5, prep.arch)
                               ELSE OffDesignBalancer_apply(c5, prep.arch)),
                   LAMBDA c6 : [c6 EXCEPT !.built = (c6.err = "none")])])

(***************************************************************************)
(* builder.py: ArchitectureMultiPointCycle.  The multi-point cycle is       *)
(* [des_od, connected, err, log]: des_od the pyc_connect_des_od connections *)
(* [src, tgt] in the order they were made, connected the set                *)
(* balance_connected_des_od, log the calls [op, arg] made so far.  The      *)
(* values of cycle parameters and of inputs are not part of the state.      *)
(***************************************************************************)
\* the multi-point cycle after the calls were made
Logged(mp, calls_made) == [mp EXCEPT !.log = @ \o calls_made]

\* one call per element of the architecture, in the order of architecture.elements
PerElement(arch, op) == [k \in 1..Len(arch) |-> [op |-> op, arg |-> arch[k].name]] \o <<>>

\* ArchitectureMultiPointCycle._add_design_point (lines 422-427)
_add_design_point(mp, arch) ==
    Logged(mp, <<[op |-> "pyc_add_pnt", arg |-> "design"]>>
               \o PerElement(arch, "add_cycle_params"))

pyc_connect_des_od(se, sp, te, tp) == [src |-> <<se, sp>>, tgt |-> <<te, tp>>]

\* the scaling parameters a compressor or a turbine passes from the design point on
ConnectParams(name, params) ==
    [k \in 1..Len(params) |-> pyc_connect_des_od(name, params[k], name, params[k])] \o <<>>

\* <element>.connect_des_od (flow.py, turbomachinery.py)
element_connect_des_od(el) ==
    IF el.kind \in {"Inlet", "Duct", "Burner", "BleedInter"}
    THEN <<pyc_connect_des_od(el.name, "Fl_O:stat:area", el.name, "area")>>
    ELSE IF el.kind = "Splitter"
    THEN <<pyc_connect_des_od(el.name, "Fl_O1:stat:area", el.name, "area1"),
           pyc_connect_des_od(el.name, "Fl_O2:stat:area", el.name, "area2")>>
    ELSE IF el.kind = "Mixer"
    THEN <<pyc_connect_des_od(el.name, "Fl_O:stat:area", el.name, "area"),
           pyc_connect_des_od(el.name, "Fl_I1_calc:stat:area", el.name, "Fl_I1_stat_calc.area")>>
    ELSE IF el.kind = "Compressor"
    THEN ConnectParams(el.name, <<"s_PR", "s_Wc", "s_eff", "s_Nc">>)
         \o <<pyc_connect_des_od(el.name, "Fl_O:stat:area", el.name, "area")>>
    ELSE IF el.kind = "Turbine"
    THEN ConnectParams(el.name, <<"s_PR", "s_Wp", "s_eff", "s_Np">>)
         \o <<pyc_connect_des_od(el.name, "Fl_O:stat:area", el.name, "area")>>
    ELSE <<>>

\* <element>.connect_des_od for every element (builder.py lines 436-437)
elements_connect_des_od(mp, arch) ==
    [mp EXCEPT !.des_od = @ \o Concat([k \in 1..Len(arch) |-> element_connect_des_od(arch[k])]),
               !.log = @ \o PerElement(arch, "connect_des_od")]

\* the loop of _connect_balance_des_od (lines 254-256) over the generator, which raises when
\* it is first advanced
ConnectNozzleAreas(mp, arch) ==
    IF _iter_nozzle_balances(arch).err # "none"
    THEN [mp EXCEPT !.err = _iter_nozzle_balances(arch).err,
                    !.log = Append(@, [op |-> "couple", arg |-> "nozzle_area"])]
    ELSE LET items == SelectSeq(_iter_nozzle_balances(arch).items,
                                LAMBDA it : it.component # "mixer")
         IN [mp EXCEPT !.des_od = @ \o ([k \in 1..Len(items) |->
                                            pyc_connect_des_od(items[k].nozzle_name,
                                                               "Throat:stat:area", balance_name,
                                                               "rhs:" \o items[k].param_name)]
                                        \o <<>>),
                       !.log = Append(@, [op |-> "couple", arg |-> "nozzle_area"])]

\* the coupling without its guard on 'nozzle_area'
MutConnectUnguarded(mp, arch) ==
    ConnectNozzleAreas([mp EXCEPT !.connected = @ \cup {"nozzle_area"}], arch)

\* OffDesignBalancer._connect_balance_des_od (lines 248-256)
_connect_balance_des_od(mp, arch) ==
    IF "nozzle_area" \in mp.connected THEN mp
    ELSE ConnectNozzleAreas([mp EXCEPT !.connected = @ \cup {"nozzle_area"}], arch)

\* condition.balancer.connect_des_od for the conditions k.. (builder.py lines 439-440);
\* condition 0 is the design condition, whose DesignBalancer does nothing
RECURSIVE balancers_connect_des_od(_, _, _, _)
balancers_connect_des_od(mp, arch, k, n) ==
    IF k > n \/ mp.err # "none" THEN mp
    ELSE balancers_connect_des_od(
             With(Logged(mp, <<[op |-> "balancer.connect_des_od",
                                arg |-> IF k = 0 THEN "design" ELSE "od"]>>), LAMBDA m :
                  IF k = 0 THEN m ELSE _connect_balance_des_od(m, arch)),
             arch, k + 1, n)

\* ArchitectureMultiPointCycle._add_off_design_points (lines 429-440) for n off-design
\* conditions
_add_off_design_points(mp, arch, n) ==
    IF n = 0 THEN mp
    ELSE balancers_connect_des_od(
             elements_connect_des_od(
                 Logged(mp, [k \in 1..n |-> [op |-> "pyc_add_pnt", arg |-> "od"]] \o <<>>), arch),
             arch, 0, n)

\* the setup with the off-design points added before the design point
MutSetupOffDesignFirst(mp, arch, n) ==
    _add_design_point(_add_off_design_points(mp, arch, n), arch)

\* ArchitectureMultiPointCycle.setup (lines 418-420)
ArchitectureMultiPointCycle_setup(mp, arch, n) ==
    _add_off_design_points(_add_design_point(mp, arch), arch, n)

(***************************************************************************)
(* The multi-point cycle of one architecture                               *)
(***************************************************************************)
MaxOd == 2
MaxReconnects == 2

\* the problems whose architectures are analysed: fan, shafts, gearbox and mixing free; the
\* cooling bleeds free; the bleeds and the two secondary burners free
CycleProblems ==
    {ArchitectingProblem(<<NozzleMixingChoice(None), GearboxChoice(None, Fix(3)),
                           ShaftNumberFree, FanChoice(None, Fix(20), Fix(30))>>, FALSE),
     ArchitectingProblem(<<CoolingBleedFirstFree, ShaftNumberFree>>, FALSE),
     ArchitectingProblem(<<BleedIncludeFree, ITBChoice(None, Fix(4)),
                           AfterburnerChoice(None, Fix(4)), ShaftNumberFree>>, FALSE)}

\* the turbojet with a second main burner between the burner and the turbine
TwoMainBurners ==
    With(get_turbojet_architecture, LAMBDA a :
         Insert([a EXCEPT ![Pos(a, "burner")].target = "burner_2"], IndexOfName(a, "burner") + 1,
                [NewEl("burner_2", "Burner") EXCEPT !.target = "turbine", !.main = TRUE,
                                                    !.par = <<0>>]))

\* the turbojet whose compressor is the source of the extraction bleed
ExtractionBleedTurbojet ==
    With(get_turbojet_architecture, LAMBDA a : [a EXCEPT ![Pos(a, "compressor")].offtake = TRUE])

\* the architectures generate_architecture returns for the design vectors of CycleProblems
EngineArchitectures ==
    UNION {{With(generate_architecture(p, AnalysisProblem, dv), LAMBDA gen : gen.arch) :
               dv \in {v \in Inputs(p) :
                          generate_architecture(p, AnalysisProblem, v).err = "none"}} :
           p \in CycleProblems}

CycleArchitectures == {TwoMainBurners, ExtractionBleedTurbojet} \cup EngineArchitectures

\* ArchitectureMultiPointCycle.setup (builder.py lines 417-440)
MPSetup ==
    /\ phase = "new"
    /\ With(ArchitectureMultiPointCycle_setup(
                [des_od |-> des_od, connected |-> balance_connected_des_od, err |-> "none",
                 log |-> mp_log], architecture, n_od), LAMBDA mp :
            /\ pnts' = <<NewCycle(TRUE)>> \o [k \in 1..n_od |-> NewCycle(FALSE)]
            /\ mp_log' = mp.log
            /\ des_od' = mp.des_od
            /\ balance_connected_des_od' = mp.connected
            /\ error' = mp.err
            /\ phase' = IF mp.err = "none" THEN "points" ELSE "failed")
    /\ UNCHANGED <<engine_vars, architecture, n_od, reconnects>>

\* the first point that was not set up, Len(pnts) + 1 if all were
NextPoint == IF \A k \in DOMAIN pnts : pnts[k].built THEN Len(pnts) + 1
             ELSE CHOOSE k \in DOMAIN pnts : ~pnts[k].built /\ \A j \in 1..(k - 1) : pnts[j].built

\* ArchitectureCycle.setup of the next point, in the order the points were added
CycleSetup ==
    /\ phase = "points"
    /\ NextPoint <= Len(pnts)
    /\ With(ArchitectureCycle_setup(pnts[NextPoint], architecture), LAMBDA r :
            /\ pnts' = [pnts EXCEPT ![NextPoint] = r.cycle]
            /\ architecture' = r.arch
            /\ error' = r.cycle.err
            /\ phase' = IF r.cycle.err # "none" THEN "failed"
                        ELSE IF NextPoint = Len(pnts) THEN "setup" ELSE "points")
    /\ UNCHANGED <<engine_vars, n_od, des_od, balance_connected_des_od, reconnects, mp_log>>

\* a further balancer.connect_des_od of an off-design condition, after the setup connected them
ConnectDesOd ==
    /\ phase \in {"points", "setup"}
    /\ n_od >= 1
    /\ reconnects < MaxReconnects
    /\ With(_connect_balance_des_od(
                [des_od |-> des_od, connected |-> balance_connected_des_od, err |-> "none",
                 log |-> Append(mp_log, [op |-> "balancer.connect_des_od", arg |-> "od"])],
                architecture), LAMBDA mp :
            /\ des_od' = mp.des_od
            /\ mp_log' = mp.log
            /\ balance_connected_des_od' = mp.connected
            /\ error' = mp.err
            /\ phase' = IF mp.err = "none" THEN phase ELSE "failed")
    /\ reconnects' = reconnects + 1
    /\ UNCHANGED <<engine_vars, architecture, n_od, pnts>>

InitCycle ==
    /\ problem = ArchitectingProblem(<<>>, FALSE)
    /\ FreshEngine
    /\ architecture \in CycleArchitectures
    /\ n_od \in 0..MaxOd
    /\ pnts = <<>>
    /\ des_od = <<>>
    /\ balance_connected_des_od = {}
    /\ phase = "new"
    /\ error = "none"
    /\ reconnects = 0
    /\ mp_log = <<>>

NextCycle == MPSetup \/ CycleSetup \/ ConnectDesOd

SpecCycle == InitCycle /\ [][NextCycle]_vars

(***************************************************************************)
(* The balances of a cycle                                                  *)
(***************************************************************************)
\* the connections of cycle c its balance variable drives, and those into its residual
Driven(c, name) == {k \in DOMAIN c.conns : c.conns[k].src = <<balance_name, name>>}
Residual(c, name) == {k \in DOMAIN c.conns : c.conns[k].tgt = <<balance_name, "lhs:" \o name>>}

\* the balances of cycle c with a name
Named(c, name) == {b \in DOMAIN c.balances : c.balances[b].name = name}

\* the elements of a kind, and the points of a kind that were set up without an error
OfKind(kinds) == {k \in DOMAIN architecture : architecture[k].kind \in kinds}
BuiltPoints(design) == {p \in DOMAIN pnts : pnts[p].built /\ pnts[p].design = design}

\* C6: in every point set up for an architecture the choice engine constructed, design or
\* off-design, every balance variable drives exactly one parameter of the cycle and every
\* residual has exactly one computed quantity connected to its left-hand side.
C6_Closure ==
    architecture \in EngineArchitectures =>
        \A p \in DOMAIN pnts : pnts[p].built =>
            \A b \in DOMAIN pnts[p].balances :
                /\ Cardinality(Driven(pnts[p], pnts[p].balances[b].name)) = 1
                /\ Cardinality(Residual(pnts[p], pnts[p].balances[b].name)) = 1

\* C7: the design point has exactly one balance W with right-hand side Fn_target, one FAR
\* with T4_target, one <turbine>_PR per Turbine whose residual is the net power of the
\* turbine's shaft, one gb_trq per Gearbox, one BPR per Mixer, one extraction_bleed per
\* Compressor with offtake_bleed, and no other balance.
C7_DesignPolicy ==
    \A p \in BuiltPoints(TRUE) :
        LET c == pnts[p]
        IN /\ \E b \in Named(c, "W") : Named(c, "W") = {b} /\ c.balances[b].rhs = "Fn_target"
           /\ \E b \in Named(c, "FAR") : Named(c, "FAR") = {b} /\ c.balances[b].rhs = "T4_target"
           /\ \A t \in OfKind({"Turbine"}) :
                  /\ Cardinality(Named(c, architecture[t].name \o "_PR")) = 1
                  /\ \A k \in Residual(c, architecture[t].name \o "_PR") :
                         c.conns[k].src = <<architecture[t].shaft, "pwr_net">>
           /\ Cardinality(Named(c, "gb_trq")) = Cardinality(OfKind({"Gearbox"}))
           /\ Cardinality(Named(c, "BPR")) = Cardinality(OfKind({"Mixer"}))
           /\ Cardinality(Named(c, "extraction_bleed"))
                  = Cardinality({k \in OfKind({"Compressor"}) : architecture[k].offtake})
           /\ Len(c.balances) = 2 + Cardinality(OfKind({"Turbine", "Gearbox", "Mixer"}))
                                  + Cardinality({k \in OfKind({"Compressor"}) :
                                                    architecture[k].offtake})

\* the balances of off-design cycle c that drive a parameter of element x and whose residual
\* has a nozzle throat area as left-hand side
AreaUnknowns(c, x) ==
    {b \in DOMAIN c.balances :
        /\ \E k \in Driven(c, c.balances[b].name) : c.conns[k].tgt[1] = x
        /\ \E k \in Residual(c, c.balances[b].name) : c.conns[k].src[2] = "Throat:stat:area"}

\* the design to off-design connections into a right-hand side of the balance
Coupled(rhs) == {k \in DOMAIN des_od : des_od[k].tgt = <<balance_name, rhs>>}

\* C8: a multi-point cycle with off-design conditions is set up without the error on the
\* number of nozzles, and each off-design point has for the inlet, each splitter and each
\* mixer exactly one unknown whose residual has a nozzle throat area as left-hand side and,
\* as right-hand side, the throat area of the same nozzle at the design point.
C8_OffDesignAreas ==
    n_od >= 1 /\ phase # "new" =>
        /\ error # "RuntimeError: number of nozzles"
        /\ \A p \in BuiltPoints(FALSE) : \A x \in OfKind({"Inlet", "Splitter", "Mixer"}) :
               LET c == pnts[p]
                   unknowns == AreaUnknowns(c, architecture[x].name)
               IN /\ Cardinality(unknowns) = 1
                  /\ \A b \in unknowns :
                         /\ Cardinality(Coupled(c.balances[b].rhs)) = 1
                         /\ \A k \in Residual(c, c.balances[b].name) :
                                \A j \in Coupled(c.balances[b].rhs) :
                                    des_od[j].src = c.conns[k].src

\* the names of the main burners
MainBurners ==
    {architecture[k].name : k \in {j \in OfKind({"Burner"}) : architecture[j].main}}

\* C9: setting up the design point of an architecture with more than one main burner raises
\* and connects the FAR balance to no burner; with exactly one main burner the FAR balance
\* drives the fuel-air ratio of that burner and its residual is that burner's exit
\* temperature.
C9_MainBurner ==
    \A p \in DOMAIN pnts : pnts[p].design /\ pnts[p].elements # <<>> =>
        LET c == pnts[p]
        IN /\ Cardinality(MainBurners) > 1 => c.err # "none" /\ Driven(c, "FAR") = {}
           /\ Cardinality(MainBurners) = 1 /\ c.built =>
                  /\ \E k \in Driven(c, "FAR") : Driven(c, "FAR") = {k}
                  /\ \A k \in Driven(c, "FAR") :
                         c.conns[k].tgt[1] \in MainBurners /\ c.conns[k].tgt[2] = "Fl_I:FAR"
                  /\ \A k \in Residual(c, "FAR") :
                         c.conns[k].src[1] \in MainBurners /\ c.conns[k].src[2] = "Fl_O:tot:T"

\* the residuals of the off-design points that match a nozzle area
AreaResiduals ==
    SelectSeq(_iter_nozzle_balances(architecture).items, LAMBDA it : it.component # "mixer")

\* C10: once the multi-point cycle with off-design conditions is set up, however many of
\* them there are and however often connect_des_od is invoked, the right-hand side of each
\* off-design area residual is connected exactly once, to the throat area of its nozzle at
\* the design point, and an invocation after the setup adds no connection and changes
\* neither the set of connected keys, nor the points, nor the architecture.
C10_Idempotent ==
    /\ [](n_od >= 1 /\ phase \in {"points", "setup"} =>
             \A i \in DOMAIN AreaResiduals :
                 /\ Cardinality(Coupled("rhs:" \o AreaResiduals[i].param_name)) = 1
                 /\ \A k \in Coupled("rhs:" \o AreaResiduals[i].param_name) :
                        des_od[k].src = <<AreaResiduals[i].nozzle_name, "Throat:stat:area">>)
    /\ [][reconnects' # reconnects =>
              UNCHANGED <<des_od, balance_connected_des_od, pnts, architecture, error, phase>>]_vars

\* connect_des_od was invoked twice more after the setup of a cycle with two off-design
\* points whose area residuals are connected
C10_Witness ==
    /\ phase = "setup" /\ n_od = 2 /\ reconnects = 2
    /\ AreaResiduals # <<>>
    /\ \A i \in DOMAIN AreaResiduals : Coupled("rhs:" \o AreaResiduals[i].param_name) # {}

(***************************************************************************)
(* The order of the calls of a multi-point setup                            *)
(***************************************************************************)
\* the positions in the log of the calls of an operation, and of those with an argument
Calls(ops) == {k \in DOMAIN mp_log : mp_log[k].op \in ops}
CallsWith(op, arg) == {k \in Calls({op}) : mp_log[k].arg = arg}

\* the order the setup keeps: the design point is added first, the elements declare their
\* cycle parameters after it, the n_od off-design points are added after those, and the
\* connections from design to off-design, of elements and of balancers, come after every point
SetupOrder ==
    /\ mp_log # <<>> /\ mp_log[1] = [op |-> "pyc_add_pnt", arg |-> "design"]
    /\ CallsWith("pyc_add_pnt", "design") = {1}
    /\ Cardinality(Calls({"add_cycle_params"})) = Len(architecture)
    /\ Cardinality(CallsWith("pyc_add_pnt", "od")) = n_od
    /\ \A i \in Calls({"add_cycle_params"}) : \A j \in CallsWith("pyc_add_pnt", "od") : i < j
    /\ \A i \in Calls({"pyc_add_pnt"}) :
           \A j \in Calls({"connect_des_od", "balancer.connect_des_od", "couple"}) : i < j

\* C11 as stated: after a multi-point setup with zero or more off-design conditions the calls
\* were made in the order of SetupOrder and the cross-point coupling was performed exactly
\* once.
C11_SetupSequencing ==
    phase # "new" => SetupOrder /\ Cardinality(Calls({"couple"})) = 1

\* C11 amended: after a multi-point setup the calls were made in the order of SetupOrder; the
\* cross-point coupling was performed exactly once when there is an off-design condition,
\* however often connect_des_od is invoked, and not at all when there is none.
C11_SetupSequencingAmended ==
    phase # "new" =>
        SetupOrder /\ Cardinality(Calls({"couple"})) = IF n_od = 0 THEN 0 ELSE 1

\* a cycle with two off-design points is set up: three points added, one coupling
C11_Witness ==
    /\ phase = "setup" /\ n_od = 2
    /\ Cardinality(Calls({"pyc_add_pnt"})) = 3
    /\ Cardinality(Calls({"balancer.connect_des_od"})) >= 3
    /\ Cardinality(Calls({"couple"})) = 1

(***************************************************************************)
(* C12: the gearbox choice without a fan choice before it                   *)
(***************************************************************************)
\* the applied choices of the last call that are a GearboxChoice asked to include a gear, on
\* a graph no FanChoice was applied to before
GearWithoutFanChoice ==
    {i \in DOMAIN last.gen.applied :
        /\ last.gen.applied[i].choice.kind = "GearboxChoice"
        /\ last.gen.applied[i].dv[1] = TRUE
        /\ \A j \in 1..(i - 1) : last.gen.applied[j].choice.kind # "FanChoice"}

\* C12: GearboxChoice.modify_architecture asked to include a gear on a graph to which no
\* FanChoice was applied never returns normally: the call of generate_architecture raises.
C12_ConstructionOrder ==
    last.op = "generate" => GearWithoutFanChoice = {}

(***************************************************************************)
(* C13: the analysis problem is not changed by applying choices             *)
(***************************************************************************)
\* C13: whatever calls of generate_architecture were made, the AnalysisProblem shared by them
\* (its turbine-inlet-temperature target and its offtakes) is the one the problem was
\* constructed with, so a later call is handed the same solve targets as the first.
C13_Purity == anp = AnalysisProblem

(***************************************************************************)
(* C14: failures of one evaluation                                          *)
(***************************************************************************)
\* C14: when a choice raises while generate_architecture constructs the architecture of an
\* evaluate call, the call does not raise: it returns the imputed design vector with rows of
\* NaN.
C14_Containment ==
    last.op = "evaluate" /\ last.gen.err # "none" =>
        last.err = "none" /\ last.ret # <<>> /\ last.ret[2] = "nan"


(***************************************************************************)
(* C15: encoding errors propagate                                           *)
(***************************************************************************)
\* the design variables encode / decode / get_fixed_value are called on: the ones of
\* test_int_des_var and test_cont_des_var
DesVars ==
    {DiscreteDesignVariable("dv", <<4, 5, 6, 7>>, None),
     DiscreteDesignVariable("dv", <<1, 2, 3>>, Fix(2)),
     DiscreteDesignVariable("dv", <<2, 3, 4>>, Fix(5)),
     ContinuousDesignVariable("dv", <<5, 45>>, None),
     ContinuousDesignVariable("dv", <<5, 45>>, Fix(35))}

\* decoded values and encoded indices passed in, inside and outside every value list
DecodedValues == 0..8
EncodedValues == -2..5

\* the result of a call on one design variable
DesVarCall(op, des_var, value, r) ==
    [op |-> op, des_var |-> des_var, value |-> value, gen |-> NoCall.gen, ret |-> <<r.v>>,
     err |-> r.err, solved |-> FALSE]

\* des_var.encode(value)
Encode ==
    \E des_var \in DesVars, value \in DecodedValues :
        /\ calls < MaxCalls
        /\ calls' = calls + 1
        /\ last' = DesVarCall("encode", des_var, value, encode(des_var, value))
        /\ UNCHANGED <<problem, anp, results_cache, eval_id_cache, last_eval_id, returned, solves,
                       cycle_vars, pool_vars>>

\* des_var.decode(value)
Decode ==
    \E des_var \in DesVars, value \in EncodedValues :
        /\ calls < MaxCalls
        /\ calls' = calls + 1
        /\ last' = DesVarCall("decode", des_var, value, decode(des_var, value))
        /\ UNCHANGED <<problem, anp, results_cache, eval_id_cache, last_eval_id, returned, solves,
                       cycle_vars, pool_vars>>

\* des_var.get_fixed_value() of a fixed design variable
GetFixedValue ==
    \E des_var \in {dv \in DesVars : is_fixed(dv)} :
        /\ calls < MaxCalls
        /\ calls' = calls + 1
        /\ last' = DesVarCall("get_fixed_value", des_var, des_var.fixed[1],
                              get_fixed_value(des_var))
        /\ UNCHANGED <<problem, anp, results_cache, eval_id_cache, last_eval_id, returned, solves,
                       cycle_vars, pool_vars>>

\* the free design vectors a caller can pass: every discrete entry is an index of the value
\* list, the index below the first or the index after the last
RECURSIVE AnyVectors(_)
AnyVectors(dvars) ==
    IF dvars = <<>> THEN {<<>>}
    ELSE {<<x>> \o r : x \in IF Head(dvars).type = "cont" THEN SampleValues(Head(dvars))
                             ELSE (-1)..Len(Head(dvars).values),
                       r \in AnyVectors(Tail(dvars))}

\* problem.evaluate(design_vector) for any such vector
EvaluateAny ==
    \E design_vector \in AnyVectors(free_opt_des_vars(problem)) :
        LET gen == generate_architecture(problem, anp, design_vector)
        IN \E out \in Outcomes, save_ok \in BOOLEAN, id \in EvalIds :
               evaluate(gen, out, save_ok, id)

\* a fan with a free inclusion flag and bypass ratio; a gearbox whose inclusion is fixed; a fan
\* with a number of shafts that is fixed to a value outside [1, 2, 3]
EncodingProblems ==
    {ArchitectingProblem(<<FanChoice(None, None, Fix(30))>>, FALSE),
     ArchitectingProblem(<<GearboxChoice(Fix(TRUE), None)>>, FALSE),
     ArchitectingProblem(<<FanChoice(None, Fix(20), Fix(30)),
                           ShaftChoice(Fix(0), Fix(600), Fix(10), Fix(10), Fix(20), Fix(16),
                                       Fix(10))>>, FALSE)}

InitEncoding ==
    /\ problem \in EncodingProblems
    /\ FreshEngine
    /\ IdleCycle

NextEncoding == Encode \/ Decode \/ GetFixedValue \/ EvaluateAny

SpecEncoding == InitEncoding /\ [][NextEncoding]_vars

\* the value is no member of the value list of the discrete variable
NotAValue(des_var, value) ==
    des_var.type = "int" /\ \A k \in DOMAIN des_var.values : des_var.values[k] # value

\* the index is outside the value list of the discrete variable
NotAnIndex(des_var, value) ==
    des_var.type = "int" /\ (value < 0 \/ value >= Len(des_var.values))

\* the free design vector holds an out-of-domain index of a discrete variable
OutOfDomain(p, design_vector) ==
    \E k \in DOMAIN design_vector : NotAnIndex(free_opt_des_vars(p)[k], design_vector[k])

\* C15: decode of a discrete index below 0 or at/above the number of values raises IndexError,
\* encode of a value not in the value set raises ValueError, get_fixed_value of a fixed value
\* outside the value set raises ValueError; evaluate called with a free design vector holding
\* an out-of-domain discrete index raises to the caller, returns no NaN row and adds no cache
\* entry.
C15_EncodingErrorsPropagate ==
    /\ [](/\ last.op = "decode" /\ NotAnIndex(last.des_var, last.value)
                => last.err = "IndexError"
          /\ last.op = "encode" /\ NotAValue(last.des_var, last.value)
                => last.err = "ValueError"
          /\ last.op = "get_fixed_value" /\ NotAValue(last.des_var, last.value)
                => last.err = "ValueError"
          /\ last.op = "evaluate" /\ OutOfDomain(problem, last.gen.dv)
                => last.err # "none" /\ last.ret = <<>> /\ ~last.solved)
    /\ [][last'.op = "evaluate" /\ OutOfDomain(problem, last'.gen.dv)
              => UNCHANGED <<results_cache, eval_id_cache, last_eval_id, returned, solves>>]_vars

\* an evaluate with an index below 0 raised after an earlier evaluate filled the cache
C15_Witness ==
    /\ last.op = "evaluate"
    /\ \E k \in DOMAIN last.gen.dv : last.gen.dv[k] = -1
    /\ last.err = "IndexError"
    /\ DOMAIN results_cache.d # {}


(***************************************************************************)
(* C16: definition errors at construction                                   *)
(***************************************************************************)
\* the choices and objectives a problem is constructed from: no choice, a fan that is fixed
\* completely, a fan with free variables, the same fan twice; no metric, a metric that yields
\* no objective, one metric, the same metric twice
ConstructChoices ==
    {<<>>,
     <<FanChoice(Fix(TRUE), Fix(20), Fix(30))>>,
     <<FanChoice(None, Fix(20), Fix(30))>>,
     <<FanChoice(None, Fix(20), Fix(30)), FanChoice(None, Fix(20), Fix(30))>>}
ConstructObjectives == {<<>>, <<<<>>>>, <<TSFCMetric>>, <<TSFCMetric, TSFCMetric>>}

\* ArchitectingProblem(analysis_problem, choices, objectives): __init__ runs _check_definitions
\* and the caller holds the problem only if it did not raise
Construct ==
    \E choices \in ConstructChoices, objectives \in ConstructObjectives :
        LET p == [ArchitectingProblem(choices, FALSE) EXCEPT !.objectives = objectives]
        IN /\ last.op = "none"
           /\ last' = [op |-> "construct", problem |-> p, gen |-> NoCall.gen, ret |-> <<>>,
                       err |-> _check_definitions(p), solved |-> FALSE]
           /\ problem' = IF _check_definitions(p) = "none" THEN p ELSE problem
           /\ UNCHANGED <<anp, results_cache, eval_id_cache, last_eval_id, calls, returned,
                          solves, cycle_vars, pool_vars>>

\* problem.evaluate(design_vector) on the problem the construction returned
EvaluateConstructed ==
    /\ last.op = "evaluate" \/ (last.op = "construct" /\ last.err = "none")
    /\ Evaluate

\* no problem is constructed yet
InitConstruct ==
    /\ problem = ArchitectingProblem(<<>>, FALSE)
    /\ FreshEngine
    /\ IdleCycle

NextConstruct == Construct \/ EvaluateConstructed

SpecConstruct == InitConstruct /\ [][NextConstruct]_vars

\* some name occurs twice in the sequence of names
Duplicates(names) == \E i, j \in DOMAIN names : i < j /\ names[i] = names[j]

DesVarNames(p) == [k \in DOMAIN free_opt_des_vars(p) |-> free_opt_des_vars(p)[k].name]

\* the problem declares no free design variable, yields no objective, or declares a
\* design-variable or output name twice
Malformed(p) ==
    \/ free_opt_des_vars(p) = <<>>
    \/ opt_objectives(p) = <<>>
    \/ Duplicates(DesVarNames(p))
    \/ Duplicates(opt_objectives(p))

\* C16: constructing an ArchitectingProblem raises when the choices declare no free design
\* variable, when the objectives yield no objective, and when design-variable or output names
\* are duplicated; no problem in such a state is obtained and used for evaluate.
C16_EagerDefinitionErrors ==
    /\ last.op = "construct" /\ Malformed(last.problem) => last.err # "none"
    /\ last.op = "evaluate" => ~Malformed(problem)


(***************************************************************************)
(* C17: evaluation in a pool of worker processes (architecting/pymoo.py)    *)
(***************************************************************************)
MaxBatch == 2

\* the problem handed to get_pymoo_problem(parallel_pool=Pool(...))
PoolProblems == {ArchitectingProblem(<<FanChoice(None, None, Fix(30))>>, FALSE)}

\* the design vectors of one generation, evaluated by one starmap call
Batches == UNION {[1..n -> Inputs(problem)] : n \in 1..MaxBatch}

\* Pool.starmap cuts the batch into chunks of consecutive tasks; the chunk size depends on the
\* number of processes: every task in a chunk of its own, or all in one chunk
Chunkings(X) == {[k \in 1..Len(X) |-> <<X[k]>>] \o <<>>, <<X \o <<>>>>}

\* ArchitectingProblem.evaluate (problem.py lines 161-196) on the copy self of the problem,
\* [results_cache, eval_id_cache, last_eval_id]; gives [self, ret, err, solved]
evaluate_on(self, gen, out, save_ok, id) ==
    LET dv_cache == gen.imputed
        values == IF out = "raise" THEN "nan" ELSE out
        result == <<gen.imputed, values, Rows(problem, out)>>
        saved == _save_results(problem, save_ok, id)
    IN IF gen.err # "none" THEN [self |-> self, ret |-> <<>>, err |-> gen.err, solved |-> FALSE]
       ELSE IF self.results_cache.none
       THEN [self |-> self, ret |-> <<>>, err |-> "TypeError", solved |-> FALSE]
       ELSE IF dv_cache \in DOMAIN self.results_cache.d
       THEN [self |-> [self EXCEPT !.last_eval_id = self.eval_id_cache.d[dv_cache]],
             ret |-> self.results_cache.d[dv_cache], err |-> "none", solved |-> FALSE]
       ELSE IF saved.err # "none"
       THEN [self |-> [self EXCEPT !.results_cache = [none |-> TRUE, d |-> <<>>],
                                   !.eval_id_cache = [none |-> TRUE, d |-> <<>>]],
             ret |-> <<>>, err |-> saved.err, solved |-> TRUE]
       ELSE [self |-> [results_cache |-> [self.results_cache EXCEPT
                                             !.d = DictSet(@, dv_cache, result)],
                       eval_id_cache |-> [self.eval_id_cache EXCEPT
                                             !.d = DictSet(@, dv_cache, saved.v)],
                       last_eval_id |-> saved.v],
             ret |-> result, err |-> "none", solved |-> TRUE]

\* the orchestrating process calls starmap on a batch (pymoo.py lines 63-68): every chunk is
\* pickled together with the evaluation function, which holds the problem, so that the chunk
\* is worked on with a copy of the problem as it is in the orchestrating process now
Starmap ==
    /\ workers = <<>>
    /\ calls < MaxCalls
    /\ \E X \in Batches : \E chunks \in Chunkings(X) :
           workers' = [w \in DOMAIN chunks |->
                          [tasks |-> chunks[w],
                           self |-> [results_cache |-> results_cache,
                                     eval_id_cache |-> eval_id_cache,
                                     last_eval_id |-> last_eval_id],
                           out |-> <<>>, err |-> "none"]] \o <<>>
    /\ outs' = <<>>
    /\ last' = [NoCall EXCEPT !.op = "starmap"]
    /\ UNCHANGED <<problem, anp, results_cache, eval_id_cache, last_eval_id, calls, returned,
                   solves, cycle_vars>>

\* a worker process runs PymooArchitectingProblem._evaluate (pymoo.py lines 118-139) on the
\* next task of its chunk: problem.evaluate on its copy, the result put into out
WorkerEvaluate ==
    \E w \in DOMAIN workers :
        /\ workers[w].tasks # <<>>
        /\ workers[w].err = "none"
        /\ \E out \in Outcomes, save_ok \in BOOLEAN, id \in EvalIds :
               With(generate_architecture(problem, anp, Head(workers[w].tasks)), LAMBDA gen :
               With(evaluate_on(workers[w].self, gen, out, save_ok, id), LAMBDA r :
                    /\ workers' = [workers EXCEPT
                           ![w] = [tasks |-> Tail(@.tasks), self |-> r.self,
                                   out |-> IF r.err # "none" THEN @.out
                                           ELSE Append(@.out, [X |-> r.ret[1], F |-> r.ret[2],
                                                               ID |-> r.self.last_eval_id]),
                                   err |-> r.err]]
                    /\ solves' = IF ~r.solved THEN solves
                                 ELSE DictSet(solves, gen.imputed,
                                              IF gen.imputed \in DOMAIN solves
                                              THEN solves[gen.imputed] + 1 ELSE 1)
                    /\ last' = [op |-> "worker_evaluate", gen |-> gen, ret |-> r.ret,
                                err |-> r.err, solved |-> r.solved]))
        /\ calls' = calls + 1
        /\ UNCHANGED <<problem, anp, results_cache, eval_id_cache, last_eval_id, returned, outs,
                       cycle_vars>>

\* starmap returns in the orchestrating process once every chunk is worked off or has raised:
\* the out dictionaries in the order of the batch, or the exception of a worker; the copies of
\* the problem are dropped with the tasks
StarmapReturn ==
    /\ workers # <<>>
    /\ \A w \in DOMAIN workers : workers[w].tasks = <<>> \/ workers[w].err # "none"
    /\ outs' = IF \E w \in DOMAIN workers : workers[w].err # "none" THEN <<>>
               ELSE Concat([w \in DOMAIN workers |-> workers[w].out] \o <<>>)
    /\ last' = [NoCall EXCEPT
                   !.op = "starmap_return",
                   !.err = IF \E w \in DOMAIN workers : workers[w].err # "none"
                           THEN workers[CHOOSE w \in DOMAIN workers : workers[w].err # "none"].err
                           ELSE "none"]
    /\ workers' = <<>>
    /\ UNCHANGED <<problem, anp, results_cache, eval_id_cache, last_eval_id, calls, returned,
                   solves, cycle_vars>>

InitPool ==
    /\ problem \in PoolProblems
    /\ FreshEngine
    /\ IdleCycle

NextPool == Starmap \/ WorkerEvaluate \/ StarmapReturn

SpecPool == InitPool /\ [][NextPool]_vars

\* C17: with several workers evaluating design vectors in parallel, the evaluation cache holds
\* at most one computed result per canonical imputed vector across the whole run: workers
\* never write the cache of the orchestrating process, their results are merged into it by the
\* orchestrating process once the starmap has returned, and a vector whose imputed form was
\* already computed by any worker is not solved again.
C17_PoolCache ==
    /\ \A key \in DOMAIN solves : solves[key] <= 1
    /\ last.op = "starmap_return" /\ last.err = "none"
           => \A k \in DOMAIN outs : outs[k].X \in DOMAIN results_cache.d


(***************************************************************************)
(* The structure of a generated architecture                                *)
(***************************************************************************)
\* the architecture generate_architecture returned
Returned == last.gen.arch

\* C18: every architecture obtained by applying any combination of the shipped choices, in
\* rank order, to the baseline turbojet has exactly one Inlet, and its number of Inlets plus
\* Splitters plus Mixers equals its number of Nozzles.
C18_GraphCount ==
    Generated =>
        /\ CountKind(Returned, "Inlet") = 1
        /\ CountKind(Returned, "Inlet") + CountKind(Returned, "Splitter")
               + CountKind(Returned, "Mixer") = CountKind(Returned, "Nozzle")

\* the shafts whose connections hold the element
ShaftsOf(arch, name) ==
    {i \in DOMAIN arch : arch[i].kind = "Shaft" /\ PosOf(arch[i].connections, name) # 0}

\* the number of times the element occurs in the connections of the shaft
Occurrences(arch, i, name) ==
    Cardinality({k \in DOMAIN arch[i].connections : arch[i].connections[k] = name})

\* C19: in every architecture returned by generate_architecture, each Compressor and each
\* Turbine appears in the connections of exactly one Shaft, every Shaft has at least two
\* connections, and a Gearbox appears in the connections of exactly its core shaft and its
\* fan shaft; so Shaft._set_shaft_ref does not raise 'Shaft already set' and Shaft.add_element
\* does not raise for too few connections.
C19_ShaftMembership ==
    Generated =>
        \A i \in DOMAIN Returned :
            /\ Returned[i].kind \in {"Compressor", "Turbine"}
                   => /\ Cardinality(ShaftsOf(Returned, Returned[i].name)) = 1
                      /\ \A j \in ShaftsOf(Returned, Returned[i].name) :
                             Occurrences(Returned, j, Returned[i].name) = 1
            /\ Returned[i].kind = "Shaft"
                   => /\ Len(Returned[i].connections) >= 2
                      /\ ~ShaftRefClash(Returned, Returned[i].name)
            /\ Returned[i].kind = "Gearbox"
                   => {Returned[j].name : j \in ShaftsOf(Returned, Returned[i].name)}
                          = {Returned[i].sources[1], Returned[i].sources[2]}

\* a geared turbofan was returned: the fan on the fan shaft, the gearbox on both shafts
C19_Witness ==
    /\ Generated
    /\ CountKind(Returned, "Gearbox") = 1
    /\ CountKind(Returned, "Shaft") = 2
    /\ CountKind(Returned, "Compressor") >= 2

\* the target references of an element
Targets(el) ==
    {el.target, el.target_core, el.target_bypass, el.target_fluid, el.target_coolant}
        \ {"None"}

\* the names of the elements of the architecture
AllNames(arch) == {arch[i].name : i \in DOMAIN arch}

\* the elements reached from the elements named in from by following at most n references
RECURSIVE Reach(_, _, _)
Reach(arch, from, n) ==
    IF n = 0 THEN from
    ELSE Reach(arch, from \cup UNION {Targets(arch[i]) : i \in {j \in DOMAIN arch :
                                                                    arch[j].name \in from}},
               n - 1)

\* C20: in every architecture returned by generate_architecture, every target reference of an
\* element points to an element that is in the element list; every path that follows target
\* references from the Inlet ends at a Nozzle; and element names are unique.
C20_FlowPathIntegrity ==
    Generated =>
        /\ \A i \in DOMAIN Returned : Targets(Returned[i]) \subseteq AllNames(Returned)
        /\ \A i \in DOMAIN Returned :
               /\ Returned[i].name \in Reach(Returned, {Returned[k].name : k \in {m \in DOMAIN Returned : Returned[m].kind = "Inlet"}}, Len(Returned))
               /\ Targets(Returned[i]) = {}
               => Returned[i].kind = "Nozzle"
        /\ \A i, j \in DOMAIN Returned : Returned[i].name = Returned[j].name => i = j

(***************************************************************************)
(* C21: conditional activation of the dependent choices                     *)
(***************************************************************************)
\* the precondition of a dependent choice fails on the architecture it is handed
PreconditionUnmet(a) ==
    \/ /\ a.choice.kind \in {"GearboxChoice", "NozzleMixingChoice", "CRTFChoice",
                             "IntercoolerChoice"}
       /\ ~fan_present(a.before)
    \/ /\ a.choice.kind = "AfterburnerChoice"
       /\ fan_present(a.before)
    \/ /\ a.choice.kind = "ITBChoice"
       /\ CountKind(a.before, "Turbine") < 2

\* C21: a dependent choice whose precondition is not met leaves the architecture as it found
\* it, and every one of its variables is flagged inactive (False, or an override value, which
\* generate_architecture flags inactive too), whatever its slice holds
C21_ConditionalActivation ==
    Generated =>
        \A k \in 1..Len(last.gen.applied) :
            LET a == last.gen.applied[k]
            IN PreconditionUnmet(a) =>
                   /\ a.after = a.before
                   /\ Len(a.ret) = Len(get_design_variables(a.choice))
                   /\ \A j \in 1..Len(a.ret) : ~(a.ret[j].bool /\ a.ret[j].b)
                   /\ \A j \in 1..Len(a.flags) : ~a.flags[j]

\* an intercooler asked for (include_ic true) on an engine without a fan
C21_Witness ==
    /\ Generated
    /\ \E k \in 1..Len(last.gen.applied) :
           LET a == last.gen.applied[k]
           IN /\ a.choice.kind = "IntercoolerChoice"
              /\ PreconditionUnmet(a)
              /\ a.dv[1]
(***************************************************************************)
(* C22: what FanChoice does to the baseline turbojet                        *)
(***************************************************************************)
\* the element of an architecture with a given name
ElementNamed(arch, name) == arch[Pos(arch, name)]

\* the applications of FanChoice to the baseline turbojet in the last call
FanOnBaseline ==
    {k \in 1..Len(last.gen.applied) :
        /\ last.gen.applied[k].choice.kind = "FanChoice"
        /\ last.gen.applied[k].before = get_turbojet_architecture}

\* C22: FanChoice on the baseline turbojet.  With include_fan true the result has exactly two
\* Compressors, one Splitter and two Nozzles; the Inlet feeds the fan, the fan the splitter,
\* the splitter's core target is the compressor the Inlet fed before and its bypass target a
\* new nozzle; the fan carries the given fpr, the splitter the given bpr, and the fan is among
\* the connections of the shaft.  With include_fan false the graph is unchanged and bpr and
\* fpr are flagged inactive and imputed to their defaults.
C22_FanStructure ==
    Generated =>
        \A k \in FanOnBaseline :
            LET a == last.gen.applied[k]
                dvars == get_design_variables(a.choice)
                inlet(arch) == arch[get_elements_by_type(arch, "Inlet")[1]]
                shaft == a.before[get_elements_by_type(a.before, "Shaft")[1]].name
            IN IF a.dv[1]
               THEN /\ CountKind(a.after, "Compressor") = 2
                    /\ CountKind(a.after, "Splitter") = 1
                    /\ CountKind(a.after, "Nozzle") = 2
                    /\ inlet(a.after).target = "fan"
                    /\ ElementNamed(a.after, "fan").kind = "Compressor"
                    /\ ElementNamed(a.after, "fan").target = "splitter"
                    /\ ElementNamed(a.after, "splitter").kind = "Splitter"
                    /\ ElementNamed(a.after, "splitter").target_core = inlet(a.before).target
                    /\ ElementNamed(a.after, inlet(a.before).target).kind = "Compressor"
                    /\ LET bypass == ElementNamed(a.after, "splitter").target_bypass
                       IN /\ Pos(a.after, bypass) > 0
                          /\ Pos(a.before, bypass) = 0
                          /\ ElementNamed(a.after, bypass).kind = "Nozzle"
                    /\ ElementNamed(a.after, "fan").par = <<a.dv[3]>>
                    /\ ElementNamed(a.after, "splitter").par = <<a.dv[2]>>
                    /\ "fan" \in Range(ElementNamed(a.after, shaft).connections)
                    /\ a.flags = <<TRUE, TRUE, TRUE>>
               ELSE /\ a.after = a.before
                    /\ a.flags = <<TRUE, FALSE, FALSE>>
                    /\ \A j \in {2, 3} : a.imputed[j] = get_imputed_value(dvars[j])

\* a fan was added to the baseline with a bypass ratio above the lower bound
C22_Witness ==
    /\ Generated
    /\ \E k \in FanOnBaseline :
           /\ last.gen.applied[k].dv[1]
           /\ last.gen.applied[k].dv[2] > 8
           /\ CountKind(last.gen.applied[k].after, "Splitter") = 1
(***************************************************************************)
(* C23: encoding round trips                                                *)
(***************************************************************************)
\* C23: where the calls return, decode(encode(v)) = v for every value v of a discrete variable
\* and encode(decode(i)) = i for every valid index i; encode and decode of a continuous
\* variable are the identity; get_free_design_vector of the full vector that
\* get_full_design_vector built from a free vector of the right length is that free vector,
\* and the fixed positions of the full vector hold the encoded fixed values
C23_RoundTrips ==
    /\ last.op = "encode" /\ last.err = "none" =>
           /\ decode(last.des_var, last.ret[1]) = [v |-> last.value, err |-> "none"]
           /\ last.des_var.type = "cont" => last.ret[1] = last.value
    /\ last.op = "decode" /\ last.err = "none" =>
           /\ encode(last.des_var, last.ret[1]) = [v |-> last.value, err |-> "none"]
           /\ last.des_var.type = "cont" => last.ret[1] = last.value
    /\ last.op = "evaluate" /\ get_full_design_vector(problem, last.gen.dv).err = "none" =>
           /\ Len(last.gen.raw) = Len(opt_des_vars(problem))
           /\ get_free_design_vector(problem, last.gen.raw) = last.gen.dv
           /\ \A i \in 1..Len(last.gen.raw) :
                  is_fixed(opt_des_vars(problem)[i]) =>
                      last.gen.raw[i] = encode(opt_des_vars(problem)[i],
                                               opt_des_vars(problem)[i].fixed[1]).v

\* a value of a discrete variable other than its first was encoded
C23_Witness ==
    /\ last.op = "encode"
    /\ last.err = "none"
    /\ last.des_var.type = "int"
    /\ last.ret[1] > 0

\* the full vector of a problem with a fixed discrete variable was built
C23_WitnessFull ==
    /\ last.op = "evaluate"
    /\ get_full_design_vector(problem, last.gen.dv).err = "none"
    /\ \E i \in 1..Len(last.gen.raw) :
           is_fixed(opt_des_vars(problem)[i]) /\ opt_des_vars(problem)[i].type = "int"
(***************************************************************************)
(* C24: shape of what evaluate returns                                      *)
(***************************************************************************)
WeightMetric == <<"weight_obj">>
LengthMetric == <<"length_con">>
NoiseMetric == <<"noise_met">>

\* problems with metrics in every role (as in architecting_problem.py) and with choices that
\* declare constraints of their own
MetricProblems ==
    {[ArchitectingProblem(<<ShaftNumberFree>>, FALSE)
         EXCEPT !.objectives = <<TSFCMetric, WeightMetric>>,
                !.constraints = <<LengthMetric>>,
                !.metrics = <<NoiseMetric, TSFCMetric>>],
     [ArchitectingProblem(<<FanIncludeFree,
                            IntercoolerChoice(None, Fix(0), Fix(3), Fix(50), Fix(100))>>, FALSE)
         EXCEPT !.metrics = <<TSFCMetric>>]}

\* problem.evaluate(design_vector) where the solve succeeds, raises, or one extraction raises
EvaluateExtract ==
    \E design_vector \in Inputs(problem) :
        LET gen == generate_architecture(problem, anp, design_vector)
        IN \E out \in Outcomes \cup ExtractFailures, save_ok \in BOOLEAN, id \in EvalIds :
               evaluate(gen, out, save_ok, id)

InitMetrics ==
    /\ problem \in MetricProblems
    /\ FreshEngine
    /\ IdleCycle

NextMetrics == EvaluateExtract

SpecMetrics == InitMetrics /\ [][NextMetrics]_vars

C25_ImputationIdempotent ==
    last.op = "generate_imputed" =>
        /\ last.err = "none"
        /\ last.gen.imputed = last.first.imputed
        /\ last.gen.arch = last.first.arch
(***************************************************************************)
(* C26: construction is total                                               *)
(***************************************************************************)
\* the problem holds a choice of the kind
HasChoice(p, kind) == \E i \in 1..Len(p.choices) : p.choices[i].kind = kind

\* C26: for a problem with FanChoice, GearboxChoice and ShaftChoice (and possibly others),
\* generate_architecture completes without raising for every in-domain design vector
C26_ConstructionTotal ==
    /\ last.op = "generate"
    /\ HasChoice(problem, "FanChoice")
    /\ HasChoice(problem, "GearboxChoice")
    /\ HasChoice(problem, "ShaftChoice")
    => last.err = "none"
(***************************************************************************)
(* C27: the ranks follow the dependencies                                   *)
(***************************************************************************)
\* what the modify_architecture of a kind of choice probes the architecture for
ProbesFan == {"GearboxChoice", "CRTFChoice", "NozzleMixingChoice", "IntercoolerChoice",
              "AfterburnerChoice", "ShaftChoice"}
ProbesCrtf == {"ShaftChoice"}
ProbesTurbines == {"ITBChoice", "CoolingBleedChoice", "IntercoolerChoice"}

\* C27: what a choice observes when it probes the architecture it is handed (the fan, the
\* counter-rotating fan, the number of turbines) is what the returned architecture holds,
\* because the choice that creates the element ran before
C27_ProbesSeeFinal ==
    Generated =>
        \A k \in 1..Len(last.gen.applied) :
            LET a == last.gen.applied[k]
            IN /\ a.choice.kind \in ProbesFan =>
                      fan_present(a.before) = fan_present(Returned)
               /\ a.choice.kind \in ProbesCrtf =>
                      HasNamed(a.before, "Compressor", "crtf")
                          = HasNamed(Returned, "Compressor", "crtf")
               /\ a.choice.kind \in ProbesTurbines =>
                      CountKind(a.before, "Turbine") = CountKind(Returned, "Turbine")
(***************************************************************************)
(* C28: the order in which the choices are passed                           *)
(***************************************************************************)
\* the list in the opposite order
Reversed(seq) == [i \in 1..Len(seq) |-> seq[Len(seq) + 1 - i]]

\* the problem constructed from the same choices passed in the opposite order
ReversedProblem == ArchitectingProblem(Reversed(problem.passed), problem.save_results_folder)

\* two choices of the problem have the same construction order
HasTie(p) ==
    \E i, j \in 1..Len(p.choices) :
        i # j /\ get_construction_order(p.choices[i]) = get_construction_order(p.choices[j])

\* C28: the problem constructed from the same choices passed in another order (here: the
\* opposite order) applies them in the same order, has every variable at the same position,
\* and generates the same architecture and imputed vector for the same design vector
C28_OrderIndependent ==
    Generated =>
        /\ ReversedProblem.choices = problem.choices
        /\ opt_des_vars(ReversedProblem) = opt_des_vars(problem)
        /\ LET g == generate_architecture(ReversedProblem, AnalysisProblem, last.gen.dv)
           IN /\ g.err = "none"
              /\ g.arch = last.gen.arch
              /\ g.imputed = last.gen.imputed
(***************************************************************************)
(* C29: the caches after a failure to persist                               *)
(***************************************************************************)
\* C29: when _save_results raised during an evaluate call, the result cache and the
\* evaluation-id cache are mappings afterwards (holding what they held before), and no
\* later evaluate call fails on them
C29_CacheIntegrity ==
    /\ last.op = "evaluate" /\ last.err = "OSError" =>
           ~results_cache.none /\ ~eval_id_cache.none
    /\ last.op = "evaluate" => last.err # "TypeError"
(***************************************************************************)
(* C30: the main burner is the first burner                                 *)
(***************************************************************************)
\* the positions of the burners of the returned architecture, in element order
BurnersReturned == get_elements_by_type(Returned, "Burner")

\* C30: every generated architecture has exactly one Burner with main = True, and it comes
\* before every other burner in the element list, so that the first burner, which both FAR
\* balances drive, is the main burner
C30_MainBurnerFirst ==
    Generated =>
        /\ Len(SelectSeq(BurnersReturned, LAMBDA k : Returned[k].main)) = 1
        /\ Returned[BurnersReturned[1]].main

\* an architecture with the main burner, an inter-turbine burner and an afterburner
C30_Witness ==
    /\ Generated
    /\ Len(BurnersReturned) = 3
    /\ HasNamed(Returned, "Burner", "itb")
    /\ HasNamed(Returned, "Burner", "afterburner")
====
